---------------------------- MODULE Spec2Model ----------------------------
(***************************************************************************)
(* Ladder-Logic-Engine: the scan-cycle interpreter (runScanCycle), the     *)
(* layout engine (parseLadderLogic), the power-flow analyzer               *)
(* (calculatePowerFlow) and the simulator session (useLadderSimulator).    *)
(*                                                                         *)
(* Strings of the program (operand names, operand tokens, map keys) are    *)
(* sequences of one-character strings, so that startsWith, parseInt and    *)
(* the numeric regular expression are computed character by character.     *)
(***************************************************************************)
EXTENDS Integers, Sequences, FiniteSets, TLC

VARIABLES
    instructions,   \* Instruction[] held by the host (App state)
    stateRef,       \* stateRef.current of useLadderSimulator: SimulationState
    isSimulating,   \* useLadderSimulator: isSimulating
    prevState,      \* history: the state handed to the latest runScanCycle
    dt,             \* history: the dt handed to the latest runScanCycle
    scans,          \* history: number of scan cycles run so far
    held,           \* history: consecutive scans, up to now, whose first rung was true
    rises,          \* history: false->true transitions of the first rung seen by scans
    grid,           \* App state: grid = parseLadderLogic(instructions)
    laidOut,        \* history: TRUE once grid has been computed from instructions
    energized,      \* App memo: calculatePowerFlow(grid, ioState)
    flowIo,         \* history: the io map handed to the latest calculatePowerFlow
    rungAt,         \* history: MOVP id -> [index, rung] as the latest scan saw it
    bfs,            \* calculatePowerFlow in progress: its queue, visited set, counters
    edits,          \* history: number of editor operations applied to instructions
    layouts,        \* history: the calls of parseLadderLogic, argument and result
    imports,        \* history: the calls of parseMnemonic, argument and result
    loopRef,        \* useLadderSimulator: loopRef.current holds an interval handle
    intervals       \* the intervals set by window.setInterval and not yet cleared

vars == <<instructions, stateRef, isSimulating, prevState, dt, scans, held,
          rises, grid, laidOut, energized, flowIo, rungAt, bfs, edits, layouts,
          imports, loopRef, intervals>>

-----------------------------------------------------------------------------
(* Bounds *)

MaxScans == 7       \* scan cycles per behaviour
MaxLen == 2         \* length of the generated instruction sequences (scan)
MaxRuns == 2        \* scan cycles per behaviour over generated sequences
MaxLayoutLen == 3   \* length of the generated instruction sequences (layout)

-----------------------------------------------------------------------------
(* Strings *)

Digits == <<"0", "1", "2", "3", "4", "5", "6", "7", "8", "9">>

IsDigit(c) == \E i \in 1..10 : Digits[i] = c

DigitVal(c) == (CHOOSE i \in 1..10 : Digits[i] = c) - 1

\* String.prototype.startsWith with a one-character prefix
startsWith(s, c) == Len(s) > 0 /\ s[1] = c

\* String.prototype.substring(1)
substring1(s) == IF Len(s) <= 1 THEN <<>> ELSE SubSeq(s, 2, Len(s))

\* number of leading decimal digits of s
RECURSIVE DigitPrefixLen(_)
DigitPrefixLen(s) ==
    IF Len(s) > 0 /\ IsDigit(s[1]) THEN 1 + DigitPrefixLen(Tail(s)) ELSE 0

\* value of a sequence of decimal digits
RECURSIVE DigitsVal(_)
DigitsVal(s) ==
    IF Len(s) = 0 THEN 0
    ELSE 10 * DigitsVal(SubSeq(s, 1, Len(s) - 1)) + DigitVal(s[Len(s)])

\* parseInt(s, 10): optional sign, then the longest run of digits; the rest
\* of the string is ignored; NaN when there is no digit.
parseInt(s) ==
    LET neg  == startsWith(s, "-")
        body == IF neg \/ startsWith(s, "+") THEN Tail(s) ELSE s
        n    == DigitPrefixLen(body)
        v    == DigitsVal(SubSeq(body, 1, n))
    IN  IF n = 0 THEN [nan |-> TRUE, val |-> 0]
        ELSE [nan |-> FALSE, val |-> IF neg THEN 0 - v ELSE v]

\* /^-?\d+$/.test(s)
LooksNumeric(s) ==
    LET body == IF startsWith(s, "-") THEN Tail(s) ELSE s
    IN  Len(body) > 0 /\ DigitPrefixLen(body) = Len(body)

\* decimal digits of a natural number (template literal `${id}`)
RECURSIVE ToDigits(_)
ToDigits(n) ==
    IF n < 10 THEN <<Digits[n + 1]>>
    ELSE ToDigits(n \div 10) \o <<Digits[(n % 10) + 1]>>

-----------------------------------------------------------------------------
(* Records (objects used as maps): functions on a finite set of keys *)

EmptyMap == [k \in {} |-> FALSE]

\* an array given by its elements f[1], ..., f[n], as a sequence
Array(f, n) == SubSeq(f, 1, n)

Has(m, k) == k \in DOMAIN m

\* The maps of the state are plain objects: a key they do not hold themselves
\* is looked up on Object.prototype, which answers these names with a function
ProtoKeyList ==
    << <<"t", "o", "S", "t", "r", "i", "n", "g">>,
       <<"v", "a", "l", "u", "e", "O", "f">>,
       <<"c", "o", "n", "s", "t", "r", "u", "c", "t", "o", "r">> >>

ProtoKeys == {ProtoKeyList[i] : i \in DOMAIN ProtoKeyList}

\* Values that are not numbers are coded as integers below every number of
\* the model; arithmetic is never applied to them
NaN == 0 - 1000000

IsNumber(v) == v > NaN

\* the function value found under an inherited name
Inherited(key) == NaN - (CHOOSE i \in DOMAIN ProtoKeyList : ProtoKeyList[i] = key)

Put(m, k, v) == [x \in (DOMAIN m) \cup {k} |-> IF x = k THEN v ELSE m[x]]

\* !!io[key]
getBit(io, key) == IF Has(io, key) THEN io[key] ELSE key \in ProtoKeys

\* m[key] || 0
NumOr0(m, key) ==
    IF Has(m, key) THEN m[key]
    ELSE IF key \in ProtoKeys THEN Inherited(key) ELSE 0

\* a === b on numbers and function values
StrictEq(a, b) ==
    IF IsNumber(a) /\ IsNumber(b) THEN a = b
    ELSE ~IsNumber(a) /\ ~IsNumber(b) /\ a # NaN /\ a = b

\* a * 100, NaN when a is no number
Times100(a) == IF IsNumber(a) THEN a * 100 ELSE NaN

\* a >= b, false when b is no number
AtLeast(a, b) == IsNumber(b) /\ a >= b

\* m[key] || false
BoolOrFalse(m, key) == IF Has(m, key) THEN m[key] ELSE FALSE

-----------------------------------------------------------------------------
(* Instructions.  args absent and args empty read the same in every place  *)
(* of the code (args?.[1], args?.length === 2); both are <<>> here.        *)

Inst(id, type, value, args) ==
    [id |-> id, type |-> type, value |-> value, args |-> args]

\* inst.args?.[i] with JavaScript's 0-based i; <<>> stands for undefined and
\* for the empty string, which are both falsy
ArgAt(inst, i) == IF Len(inst.args) >= i + 1 THEN inst.args[i + 1] ELSE <<>>

EmptyState ==
    [io |-> EmptyMap, data |-> EmptyMap, timers |-> EmptyMap,
     counters |-> EmptyMap, edgeMemory |-> EmptyMap, mpsStack |-> <<>>]

-----------------------------------------------------------------------------
(* Scan interpreter *)

parseOperand(op, dataState) ==
    IF Len(op) = 0 THEN 0
    ELSE IF startsWith(op, "K")
         THEN (LET r == parseInt(substring1(op)) IN IF r.nan THEN 0 ELSE r.val)
    ELSE IF startsWith(op, "D") THEN NumOr0(dataState, op)
    ELSE IF LooksNumeric(op) THEN parseInt(op).val
    ELSE NumOr0(dataState, op)

\* variant: a pop of the empty stack yields true
PopVal_true(s) == IF Len(s) = 0 THEN TRUE ELSE s[Len(s)]

\* stack.pop() ?? false : the value
PopVal(s) == IF Len(s) = 0 THEN FALSE ELSE s[Len(s)]

\* stack.pop() : the stack that is left
PopRest(s) == IF Len(s) = 0 THEN s ELSE SubSeq(s, 1, Len(s) - 1)

\* stack[stack.length - 1] ?? false
Peek(s) == IF Len(s) = 0 THEN FALSE ELSE s[Len(s)]

\* inst.args?.[1] || '0'
SecondOrZero(inst) == IF Len(ArgAt(inst, 1)) > 0 THEN ArgAt(inst, 1) ELSE <<"0">>

\* inst.args?.[1] ? parseOperand(inst.args[1], data) : 0
Preset(inst, data) ==
    IF Len(ArgAt(inst, 1)) > 0 THEN parseOperand(ArgAt(inst, 1), data) ELSE 0

CompareEq(inst, data) ==
    StrictEq(parseOperand(inst.value, data), parseOperand(SecondOrZero(inst), data))

MovpKey(inst) == <<"M", "O", "V", "P", "_">> \o ToDigits(inst.id)

\* variant: the timer bit needs strictly more than the preset time
OutTimer_strict(m, inst, d) ==
    LET top      == Peek(m.stack)
        target   == inst.value
        presetMs == Times100(Preset(inst, m.data))
        next     == NumOr0(m.timers, target) + d
    IN  IF top
        THEN [m EXCEPT !.timers = Put(m.timers, target, next),
                       !.io = Put(m.io, target, IsNumber(presetMs) /\ next > presetMs)]
        ELSE [m EXCEPT !.timers = Put(m.timers, target, 0),
                       !.io = Put(m.io, target, FALSE)]

\* OUT to a name of the timer namespace
OutTimer(m, inst, d) ==
    LET top      == Peek(m.stack)
        target   == inst.value
        presetMs == Times100(Preset(inst, m.data))
        next     == NumOr0(m.timers, target) + d
    IN  IF top
        THEN [m EXCEPT !.timers = Put(m.timers, target, next),
                       !.io = Put(m.io, target, AtLeast(next, presetMs))]
        ELSE [m EXCEPT !.timers = Put(m.timers, target, 0),
                       !.io = Put(m.io, target, FALSE)]

\* variant: the counter is level-triggered, it counts every scan with a true rung
OutCounter_level(m, inst) ==
    LET top    == Peek(m.stack)
        target == inst.value
        preset == Preset(inst, m.data)
        next   == NumOr0(m.counters, target) + 1
        m1     == [m EXCEPT !.edgeMemory = Put(m.edgeMemory, target, top)]
    IN  IF top
        THEN [m1 EXCEPT !.counters = Put(m.counters, target, next),
                        !.io = IF AtLeast(next, preset)
                               THEN Put(m.io, target, TRUE) ELSE m.io]
        ELSE m1

\* variant: the counter stops counting at its preset
OutCounter_saturate(m, inst) ==
    LET top    == Peek(m.stack)
        target == inst.value
        preset == Preset(inst, m.data)
        prevIn == BoolOrFalse(m.edgeMemory, target)
        next   == NumOr0(m.counters, target) + 1
        m1     == [m EXCEPT !.edgeMemory = Put(m.edgeMemory, target, top)]
    IN  IF ~prevIn /\ top /\ ~AtLeast(NumOr0(m.counters, target), preset)
        THEN [m1 EXCEPT !.counters = Put(m.counters, target, next),
                        !.io = IF AtLeast(next, preset)
                               THEN Put(m.io, target, TRUE) ELSE m.io]
        ELSE m1

\* OUT to a name of the counter namespace
OutCounter(m, inst) ==
    LET top    == Peek(m.stack)
        target == inst.value
        preset == Preset(inst, m.data)
        prevIn == BoolOrFalse(m.edgeMemory, target)
        next   == NumOr0(m.counters, target) + 1
        m1     == [m EXCEPT !.edgeMemory = Put(m.edgeMemory, target, top)]
    IN  IF ~prevIn /\ top
        THEN [m1 EXCEPT !.counters = Put(m.counters, target, next),
                        !.io = IF AtLeast(next, preset)
                               THEN Put(m.io, target, TRUE) ELSE m.io]
        ELSE m1

\* variant: OUT consumes the rung it reads
ExecOUT_pop(m, inst, d) ==
    LET r == IF startsWith(inst.value, "T") THEN OutTimer(m, inst, d)
             ELSE IF startsWith(inst.value, "C") THEN OutCounter(m, inst)
             ELSE [m EXCEPT !.io = Put(m.io, inst.value, Peek(m.stack))]
    IN  [r EXCEPT !.stack = PopRest(m.stack)]

\* variant: a counter counts the elapsed time of the scan, in units of 100 ms
ExecOUT_countTime(m, inst, d) ==
    IF startsWith(inst.value, "T") THEN OutTimer(m, inst, d)
    ELSE IF startsWith(inst.value, "C")
         THEN (LET c == OutCounter(m, inst)
                   n == NumOr0(m.counters, inst.value)
               IN  IF NumOr0(c.counters, inst.value) # n
                   THEN [c EXCEPT !.counters = Put(m.counters, inst.value, n + (d \div 100))]
                   ELSE c)
    ELSE [m EXCEPT !.io = Put(m.io, inst.value, Peek(m.stack))]

\* variant: a plain coil is not written during the scan
ExecOUT_skipBit(m, inst, d) ==
    IF startsWith(inst.value, "T") THEN OutTimer(m, inst, d)
    ELSE IF startsWith(inst.value, "C") THEN OutCounter(m, inst)
    ELSE m

ExecOUT(m, inst, d) ==
    IF startsWith(inst.value, "T") THEN OutTimer(m, inst, d)
    ELSE IF startsWith(inst.value, "C") THEN OutCounter(m, inst)
    ELSE [m EXCEPT !.io = Put(m.io, inst.value, Peek(m.stack))]

\* variant: SET writes the rung, true or false
ExecSET_follow(m, inst) ==
    [m EXCEPT !.io = Put(m.io, inst.value, Peek(m.stack))]

ExecSET(m, inst) ==
    IF Peek(m.stack) THEN [m EXCEPT !.io = Put(m.io, inst.value, TRUE)] ELSE m

\* variant: RST of a counter leaves its edge memory
ExecRST_keepEdge(m, inst) ==
    LET t == inst.value
    IN  IF ~Peek(m.stack) THEN m
        ELSE IF startsWith(t, "T")
             THEN [m EXCEPT !.timers = Put(m.timers, t, 0),
                            !.io = Put(m.io, t, FALSE)]
        ELSE IF startsWith(t, "C")
             THEN [m EXCEPT !.counters = Put(m.counters, t, 0),
                            !.io = Put(m.io, t, FALSE)]
        ELSE IF startsWith(t, "D")
             THEN [m EXCEPT !.data = Put(m.data, t, 0)]
        ELSE [m EXCEPT !.io = Put(m.io, t, FALSE)]

ExecRST(m, inst) ==
    LET t == inst.value
    IN  IF ~Peek(m.stack) THEN m
        ELSE IF startsWith(t, "T")
             THEN [m EXCEPT !.timers = Put(m.timers, t, 0),
                            !.io = Put(m.io, t, FALSE)]
        ELSE IF startsWith(t, "C")
             THEN [m EXCEPT !.counters = Put(m.counters, t, 0),
                            !.io = Put(m.io, t, FALSE),
                            !.edgeMemory = Put(m.edgeMemory, t, FALSE)]
        ELSE IF startsWith(t, "D")
             THEN [m EXCEPT !.data = Put(m.data, t, 0)]
        ELSE [m EXCEPT !.io = Put(m.io, t, FALSE)]

\* variant: a move to a timer name also sets the timer of that name
MoveData_sharedName(m, inst) ==
    LET v == parseOperand(inst.args[1], m.data)
    IN  [m EXCEPT !.data = Put(m.data, inst.args[2], v),
                  !.timers = IF startsWith(inst.args[2], "T")
                             THEN Put(m.timers, inst.args[2], v) ELSE m.timers]

\* data[inst.args[1]] = parseOperand(inst.args[0], data)
MoveData(m, inst) ==
    [m EXCEPT !.data = Put(m.data, inst.args[2], parseOperand(inst.args[1], m.data))]

\* variant: MOVP moves on every scan with a true rung
ExecMOVP_level(m, inst) ==
    LET top     == Peek(m.stack)
        edgeKey == MovpKey(inst)
        m1      == [m EXCEPT !.edgeMemory = Put(m.edgeMemory, edgeKey, top)]
    IN  IF top /\ Len(inst.args) = 2 THEN MoveData(m1, inst) ELSE m1

ExecMOVP(m, inst) ==
    LET top     == Peek(m.stack)
        edgeKey == MovpKey(inst)
        prev    == BoolOrFalse(m.edgeMemory, edgeKey)
        m1      == [m EXCEPT !.edgeMemory = Put(m.edgeMemory, edgeKey, top)]
    IN  IF ~prev /\ top /\ Len(inst.args) = 2 THEN MoveData(m1, inst) ELSE m1

ExecMPS(m) == [m EXCEPT !.mpsStack = Append(m.mpsStack, Peek(m.stack))]

\* variant: MRD removes the entry it reads, like MPP
ExecMRD_remove(m) ==
    IF Len(m.mpsStack) > 0
    THEN [m EXCEPT !.stack = Append(m.stack, m.mpsStack[Len(m.mpsStack)]),
                   !.mpsStack = SubSeq(m.mpsStack, 1, Len(m.mpsStack) - 1)]
    ELSE [m EXCEPT !.stack = Append(m.stack, FALSE)]

ExecMRD(m) ==
    IF Len(m.mpsStack) > 0
    THEN [m EXCEPT !.stack = Append(m.stack, m.mpsStack[Len(m.mpsStack)])]
    ELSE [m EXCEPT !.stack = Append(m.stack, FALSE)]

ExecMPP(m) ==
    IF Len(m.mpsStack) > 0
    THEN [m EXCEPT !.stack = Append(m.stack, m.mpsStack[Len(m.mpsStack)]),
                   !.mpsStack = SubSeq(m.mpsStack, 1, Len(m.mpsStack) - 1)]
    ELSE [m EXCEPT !.stack = Append(m.stack, FALSE)]

\* variant: ANI combines like AND, the inversion of the bit is lost
Contact_noInvert(type, top, bit) ==
    CASE type = "AND" -> top /\ bit
      [] type = "ANI" -> top /\ bit
      [] type = "OR"  -> top \/ bit
      [] type = "ORI" -> top \/ ~bit

\* the value AND / ANI / OR / ORI push: top combined with the addressed bit
Contact(type, top, bit) ==
    CASE type = "AND" -> top /\ bit
      [] type = "ANI" -> top /\ ~bit
      [] type = "OR"  -> top \/ bit
      [] type = "ORI" -> top \/ ~bit

\* One pass of the forEach callback of runScanCycle: the switch on inst.type.
\* m holds the scan's local copies (io, data, timers, counters, edgeMemory,
\* mpsStack) and the logic stack.  || and && short-circuit: in ORB and ANB
\* the second pop is not executed when the first operand decides the result.
ExecInst(m, inst, d) ==
    LET s    == m.stack
        a    == PopVal(s)
        r1   == PopRest(s)
        b    == PopVal(r1)
        r2   == PopRest(r1)
        bit  == getBit(m.io, inst.value)
        push(st, v) == [m EXCEPT !.stack = Append(st, v)]
    IN  CASE inst.type = "LD"  -> push(s, bit)
          [] inst.type = "LDI" -> push(s, ~bit)
          [] inst.type \in {"AND", "ANI", "OR", "ORI"} ->
                push(r1, Contact(inst.type, a, bit))
          [] inst.type = "ORB" -> IF a THEN push(r1, TRUE) ELSE push(r2, b)
          [] inst.type = "ANB" -> IF a THEN push(r2, b) ELSE push(r1, FALSE)
          [] inst.type = "LD_EQ"  -> push(s, CompareEq(inst, m.data))
          [] inst.type = "AND_EQ" -> push(r1, a /\ CompareEq(inst, m.data))
          [] inst.type = "OR_EQ"  -> push(r1, a \/ CompareEq(inst, m.data))
          [] inst.type = "MPS" -> ExecMPS(m)
          [] inst.type = "MRD" -> ExecMRD(m)
          [] inst.type = "MPP" -> ExecMPP(m)
          [] inst.type = "OUT" -> ExecOUT(m, inst, d)
          [] inst.type = "SET" -> ExecSET(m, inst)
          [] inst.type = "RST" -> ExecRST(m, inst)
          [] inst.type = "MOV" ->
                IF Peek(s) /\ Len(inst.args) = 2 THEN MoveData(m, inst) ELSE m
          [] inst.type = "MOVP" -> ExecMOVP(m, inst)
          [] OTHER -> m

\* variant: the scan starts from an empty mpsStack instead of a copy
ScanStart_freshMps(prev) ==
    [io |-> prev.io, data |-> prev.data, timers |-> prev.timers,
     counters |-> prev.counters, edgeMemory |-> prev.edgeMemory,
     mpsStack |-> <<>>, stack |-> <<>>]

\* the local copies made at the head of runScanCycle, and the empty stack
ScanStart(prev) ==
    [io |-> prev.io, data |-> prev.data, timers |-> prev.timers,
     counters |-> prev.counters, edgeMemory |-> prev.edgeMemory,
     mpsStack |-> prev.mpsStack, stack |-> <<>>]

\* the scan's locals after the first i instructions
RECURSIVE MachineAfter(_, _, _, _)
MachineAfter(insts, prev, d, i) ==
    IF i = 0 THEN ScanStart(prev)
    ELSE ExecInst(MachineAfter(insts, prev, d, i - 1), insts[i], d)

\* variant: the edge memory of a pulse instruction is keyed by its position
runScanCycle_byIndex(insts, prev, d) ==
    LET byIndex == Array([i \in 1..Len(insts) |-> [insts[i] EXCEPT !.id = i]], Len(insts))
        m       == MachineAfter(byIndex, prev, d, Len(insts))
    IN  [io |-> m.io, data |-> m.data, timers |-> m.timers,
         counters |-> m.counters, edgeMemory |-> m.edgeMemory,
         mpsStack |-> m.mpsStack]

runScanCycle(insts, prev, d) ==
    LET m == MachineAfter(insts, prev, d, Len(insts))
    IN  [io |-> m.io, data |-> m.data, timers |-> m.timers,
         counters |-> m.counters, edgeMemory |-> m.edgeMemory,
         mpsStack |-> m.mpsStack]

-----------------------------------------------------------------------------
(* Layout engine *)

Null == <<>>

Some(v) == <<v>>

SetMax(S) == CHOOSE m \in S : \A x \in S : x <= m

SetMin(S) == CHOOSE m \in S : \A x \in S : m <= x

Max2(a, b) == IF a >= b THEN a ELSE b

Min2(a, b) == IF a <= b THEN a ELSE b

Range(s) == {s[i] : i \in 1..Len(s)}

\* Set.prototype.add on a Set kept in insertion order
SetAdd(rows, y) == IF y \in Range(rows) THEN rows ELSE Append(rows, y)

\* new Set([...a, ...b])
RECURSIVE SetUnion(_, _)
SetUnion(a, b) == IF Len(b) = 0 THEN a ELSE SetUnion(SetAdd(a, Head(b)), Tail(b))

Conn(up, down, left, right) ==
    [up |-> up, down |-> down, left |-> left, right |-> right]

Cell(x, y, instruction, connections, sourceIndex) ==
    [x |-> x, y |-> y, instruction |-> instruction,
     connections |-> connections, sourceIndex |-> sourceIndex]

\* index of the cell cells.find(c => c.x === x && c.y === y) returns, 0 if none
FindIdx(cells, x, y) ==
    LET hits == {i \in 1..Len(cells) : cells[i].x = x /\ cells[i].y = y}
    IN  IF hits = {} THEN 0 ELSE SetMin(hits)

Block(startX, endX, activeRows, minY) ==
    [startX |-> startX, endX |-> endX, activeRows |-> activeRows, minY |-> minY]

\* variant: the row counter survives from the call before
LayoutStart_keptRows ==
    [cells |-> <<>>, maxYUsed |-> IF Len(grid) = 0 THEN 0 ELSE Len(grid) - 1,
     blockStack |-> <<>>, mpsStack |-> <<>>,
     currentBlock |-> Block(0, 0, <<0>>, 0)]

\* the locals of parseLadderLogic before the first instruction
LayoutStart ==
    [cells |-> <<>>, maxYUsed |-> 0, blockStack |-> <<>>, mpsStack |-> <<>>,
     currentBlock |-> Block(0, 0, <<0>>, 0)]

isStart(inst) == inst.type \in {"LD", "LDI", "LD_EQ"}

isParallel(inst) == inst.type \in {"OR", "ORI", "OR_EQ"}

isSeries(inst) ==
    inst.type \in {"AND", "ANI", "AND_EQ", "OUT", "MOV", "RST", "MOVP", "SET"}

isBlockLogic(inst) == inst.type \in {"ORB", "ANB"}

isStackOp(inst) == inst.type \in {"MPS", "MRD", "MPP"}

\* variant: a short row is not padded with wire cells
FillRow_noPad(cells, block, targetX, rowY) ==
    LET last == FindIdx(cells, targetX - 1, rowY)
    IN  IF last = 0 THEN cells
        ELSE [cells EXCEPT ![last].connections.right = TRUE]

\* one row of fillHorizontalWires
FillRow(cells, block, targetX, rowY) ==
    LET xs    == {cells[i].x : i \in {j \in 1..Len(cells) : cells[j].y = rowY}}
        maxX  == IF xs # {} THEN SetMax(xs) ELSE block.startX - 1
        n     == IF targetX - (maxX + 1) > 0 THEN targetX - (maxX + 1) ELSE 0
        wires == [k \in 1..n |->
                    Cell(maxX + k, rowY, Null, Conn(FALSE, FALSE, TRUE, TRUE), Null)]
        c1    == cells \o wires
        last  == FindIdx(c1, targetX - 1, rowY)
    IN  IF last = 0 THEN c1
        ELSE [c1 EXCEPT ![last].connections.right = TRUE]

RECURSIVE FillRows(_, _, _, _)
FillRows(cells, block, targetX, rows) ==
    IF Len(rows) = 0 THEN cells
    ELSE FillRows(FillRow(cells, block, targetX, Head(rows)), block, targetX, Tail(rows))

fillHorizontalWires(cells, block, targetX) ==
    FillRows(cells, block, targetX, block.activeRows)

getAllRowsInBlock(block, cells) ==
    {cells[i].y : i \in {j \in 1..Len(cells) : cells[j].y >= block.minY}}

\* one iteration (row y) of the loop of drawVerticalBus
BusRow(cells, x, fromY, toY, y) ==
    LET found == FindIdx(cells, x, y)
        c1    == IF found = 0
                 THEN Append(cells, Cell(x, y, Null, Conn(FALSE, FALSE, FALSE, FALSE), Null))
                 ELSE cells
        i     == IF found = 0 THEN Len(c1) ELSE found
    IN  IF y = fromY THEN [c1 EXCEPT ![i].connections.down = TRUE]
        ELSE IF y = toY THEN [c1 EXCEPT ![i].connections.up = TRUE,
                                        ![i].connections.right = TRUE]
        ELSE [c1 EXCEPT ![i].connections.up = TRUE,
                        ![i].connections.down = TRUE]

RECURSIVE BusFrom(_, _, _, _, _)
BusFrom(cells, x, fromY, toY, y) ==
    IF y > toY THEN cells
    ELSE BusFrom(BusRow(cells, x, fromY, toY, y), x, fromY, toY, y + 1)

drawVerticalBus(cells, x, fromY, toY) == BusFrom(cells, x, fromY, toY, fromY)

\* variant: a later start opens its block on the last used row
HandleStart_usedRow(c, index) ==
    IF index = 0
    THEN [c EXCEPT !.maxYUsed = 0,
                   !.currentBlock = Block(0, 0, <<0>>, 0),
                   !.blockStack = <<>>,
                   !.mpsStack = <<>>]
    ELSE LET newY == c.maxYUsed
         IN  [c EXCEPT !.blockStack = Append(c.blockStack, c.currentBlock),
                       !.maxYUsed = newY,
                       !.currentBlock = Block(0, 0, <<newY>>, newY)]

\* "1. Handle New Blocks (LD)"
HandleStart(c, index) ==
    IF index = 0
    THEN [c EXCEPT !.maxYUsed = 0,
                   !.currentBlock = Block(0, 0, <<0>>, 0),
                   !.blockStack = <<>>,
                   !.mpsStack = <<>>]
    ELSE LET newY == c.maxYUsed + 1
         IN  [c EXCEPT !.blockStack = Append(c.blockStack, c.currentBlock),
                       !.maxYUsed = newY,
                       !.currentBlock = Block(0, 0, <<newY>>, newY)]

\* "2. Handle Parallel Branches (OR)"
HandleParallel(c) ==
    LET cb     == c.currentBlock
        newY   == c.maxYUsed + 1
        prevX  == cb.startX - 1
        src    == FindIdx(c.cells, prevX, cb.minY)
        c1     == IF src = 0 THEN c.cells
                  ELSE [c.cells EXCEPT ![src].connections.down = TRUE]
        c2     == IF FindIdx(c1, prevX, newY) = 0
                  THEN Append(c1, Cell(prevX, newY, Null,
                                       Conn(TRUE, FALSE, FALSE, TRUE), Null))
                  ELSE c1
    IN  [c EXCEPT !.maxYUsed = newY,
                  !.cells = IF cb.startX > 0 THEN c2 ELSE c.cells,
                  !.currentBlock.activeRows = SetAdd(cb.activeRows, newY)]

\* variant: the merged block keeps only the rows of the later block
HandleORB_laterRows(c) ==
    LET prevBlock  == c.blockStack[Len(c.blockStack)]
        cb         == c.currentBlock
        commonEndX == Max2(prevBlock.endX, cb.endX)
        c1         == fillHorizontalWires(c.cells, prevBlock, commonEndX)
        c2         == fillHorizontalWires(c1, cb, commonEndX)
    IN  [c EXCEPT !.blockStack = SubSeq(c.blockStack, 1, Len(c.blockStack) - 1),
                  !.cells = c2,
                  !.currentBlock =
                      Block(prevBlock.startX, commonEndX, cb.activeRows,
                            Min2(prevBlock.minY, cb.minY))]

\* "3. Handle Block Merges (ORB / ANB)", block stack not empty
HandleORB(c) ==
    LET prevBlock  == c.blockStack[Len(c.blockStack)]
        cb         == c.currentBlock
        commonEndX == Max2(prevBlock.endX, cb.endX)
        c1         == fillHorizontalWires(c.cells, prevBlock, commonEndX)
        c2         == fillHorizontalWires(c1, cb, commonEndX)
    IN  [c EXCEPT !.blockStack = SubSeq(c.blockStack, 1, Len(c.blockStack) - 1),
                  !.cells = c2,
                  !.currentBlock =
                      Block(prevBlock.startX, commonEndX,
                            SetUnion(prevBlock.activeRows, cb.activeRows),
                            Min2(prevBlock.minY, cb.minY))]

\* variant: the block is shifted by its own width
HandleANB_ownWidth(c) ==
    LET prevBlock == c.blockStack[Len(c.blockStack)]
        cb        == c.currentBlock
        offset    == cb.endX
        blockRows == getAllRowsInBlock(cb, c.cells)
    IN  [c EXCEPT !.blockStack = SubSeq(c.blockStack, 1, Len(c.blockStack) - 1),
                  !.cells = Array([i \in 1..Len(c.cells) |->
                               IF c.cells[i].y \in blockRows /\ c.cells[i].y >= cb.minY
                               THEN [c.cells[i] EXCEPT !.x = @ + offset]
                               ELSE c.cells[i]], Len(c.cells)),
                  !.currentBlock =
                      Block(prevBlock.startX, prevBlock.endX + cb.endX,
                            cb.activeRows, prevBlock.minY)]

HandleANB(c) ==
    LET prevBlock == c.blockStack[Len(c.blockStack)]
        cb        == c.currentBlock
        offset    == prevBlock.endX
        blockRows == getAllRowsInBlock(cb, c.cells)
    IN  [c EXCEPT !.blockStack = SubSeq(c.blockStack, 1, Len(c.blockStack) - 1),
                  !.cells = Array([i \in 1..Len(c.cells) |->
                               IF c.cells[i].y \in blockRows /\ c.cells[i].y >= cb.minY
                               THEN [c.cells[i] EXCEPT !.x = @ + offset]
                               ELSE c.cells[i]], Len(c.cells)),
                  !.currentBlock =
                      Block(prevBlock.startX, prevBlock.endX + cb.endX,
                            cb.activeRows, prevBlock.minY)]

HandleBlockLogic(c, inst) ==
    IF Len(c.blockStack) > 0
    THEN (IF inst.type = "ORB" THEN HandleORB(c) ELSE HandleANB(c))
    ELSE c

\* variant: the convergence ties rows downward only, the up-connections are lost
HandleSeries_noUp(c) ==
    LET cb         == c.currentBlock
        rows       == Range(cb.activeRows)
        maxRow     == SetMax(rows)
        rightMostX == cb.endX - 1
        tie(cell)  ==
            IF cell.x = rightMostX /\ cell.y \in rows
            THEN [cell EXCEPT !.connections.right = TRUE,
                              !.connections.down = (@ \/ cell.y < maxRow)]
            ELSE cell
    IN  IF Len(cb.activeRows) > 1
        THEN [c EXCEPT !.cells = Array([i \in 1..Len(c.cells) |-> tie(c.cells[i])], Len(c.cells)),
                       !.currentBlock.activeRows = <<cb.minY>>]
        ELSE c

\* "4. Handle Series Convergence"
HandleSeries(c) ==
    LET cb         == c.currentBlock
        rows       == Range(cb.activeRows)
        minRow     == SetMin(rows)
        maxRow     == SetMax(rows)
        rightMostX == cb.endX - 1
        tie(cell)  ==
            IF cell.x = rightMostX /\ cell.y \in rows
            THEN [cell EXCEPT !.connections.right = TRUE,
                              !.connections.down = (@ \/ cell.y < maxRow),
                              !.connections.up = (@ \/ cell.y > minRow)]
            ELSE cell
    IN  IF Len(cb.activeRows) > 1
        THEN [c EXCEPT !.cells = Array([i \in 1..Len(c.cells) |-> tie(c.cells[i])], Len(c.cells)),
                       !.currentBlock.activeRows = <<cb.minY>>]
        ELSE c

\* variant: MRD removes the branch point as MPP does
HandleBranch_alwaysPop(c, pop) ==
    LET point == c.mpsStack[Len(c.mpsStack)]
        newY  == c.maxYUsed + 1
    IN  [c EXCEPT !.mpsStack = SubSeq(@, 1, Len(@) - 1),
                  !.maxYUsed = newY,
                  !.cells = drawVerticalBus(c.cells, point.x, point.y, newY),
                  !.currentBlock.activeRows = SetAdd(@, newY)]

\* MRD / MPP with a branch point on the stack
HandleBranch(c, pop) ==
    LET point == c.mpsStack[Len(c.mpsStack)]
        newY  == c.maxYUsed + 1
    IN  [c EXCEPT !.mpsStack = IF pop THEN SubSeq(@, 1, Len(@) - 1) ELSE @,
                  !.maxYUsed = newY,
                  !.cells = drawVerticalBus(c.cells, point.x, point.y, newY),
                  !.currentBlock.activeRows = SetAdd(@, newY)]

\* variant: every instruction cell gets a left-connection
NewCell_leftAlways(inst, index, placeX, placeY) ==
    Cell(placeX, placeY, Some(inst),
         Conn(FALSE, FALSE, TRUE,
              inst.type \notin {"OUT", "MOV", "RST", "SET", "MOVP"}),
         Some(index))

\* "Create Cell"
NewCell(inst, index, placeX, placeY) ==
    LET isVerticalBranch == inst.type \in {"MRD", "MPP"}
    IN  Cell(placeX, placeY, Some(inst),
             Conn(FALSE, FALSE,
                  IF isVerticalBranch THEN FALSE ELSE placeX > 0,
                  inst.type \notin {"OUT", "MOV", "RST", "SET", "MOVP"}),
             Some(index))

\* "PLACEMENT LOGIC", "Create Cell" and "Update Block Cursor"; c is the
\* context left by the handlers above
Place(c, inst, index) ==
    LET cb     == c.currentBlock
        branch == inst.type \in {"MRD", "MPP"} /\ Len(c.mpsStack) > 0
        c1     == IF inst.type = "MPS"
                  THEN [c EXCEPT !.mpsStack = Append(@, [x |-> cb.endX, y |-> cb.minY])]
                  ELSE IF branch THEN HandleBranch(c, inst.type = "MPP")
                  ELSE c
        placeX == IF branch THEN c.mpsStack[Len(c.mpsStack)].x
                  ELSE IF isStackOp(inst) THEN cb.endX
                  ELSE IF isParallel(inst) THEN cb.startX
                  ELSE cb.endX
        placeY == IF branch THEN c1.maxYUsed
                  ELSE IF isStackOp(inst) THEN cb.minY
                  ELSE IF isParallel(inst) THEN SetMax(Range(cb.activeRows))
                  ELSE cb.minY
        newCell == NewCell(inst, index, placeX, placeY)
        c2     == [c1 EXCEPT !.cells = Append(@, newCell)]
    IN  IF isParallel(inst)
        THEN [c2 EXCEPT !.currentBlock.endX = Max2(@, placeX + 1)]
        ELSE IF inst.type \in {"MRD", "MPP"}
        THEN [c2 EXCEPT !.currentBlock.endX = placeX + 1,
                        !.currentBlock.minY = placeY]
        ELSE [c2 EXCEPT !.currentBlock.endX = placeX + 1]

\* the forEach callback of parseLadderLogic
LayoutInst(c, inst, index) ==
    IF isStart(inst) THEN Place(HandleStart(c, index), inst, index)
    ELSE IF isParallel(inst) THEN Place(HandleParallel(c), inst, index)
    ELSE IF isBlockLogic(inst) THEN HandleBlockLogic(c, inst)
    ELSE IF isSeries(inst) THEN Place(HandleSeries(c), inst, index)
    ELSE Place(c, inst, index)

\* the locals of parseLadderLogic after the first i instructions
RECURSIVE LayoutAfter(_, _)
LayoutAfter(insts, i) ==
    IF i = 0 THEN LayoutStart
    ELSE LayoutInst(LayoutAfter(insts, i - 1), insts[i], i - 1)

\* variant: FinalGrid taking the width from the cursor of the current block
FinalGrid_cursor(c) ==
    IF Len(c.cells) = 0 THEN <<>>
    ELSE LET gridMaxX == c.currentBlock.endX
             gridMaxY == SetMax({c.maxYUsed} \cup {c.cells[i].y : i \in 1..Len(c.cells)})
         IN  Array([r \in 1..(gridMaxY + 1) |->
                Array([q \in 1..(gridMaxX + 1) |->
                   LET found == FindIdx(c.cells, q - 1, r - 1)
                   IN  IF found # 0 THEN c.cells[found]
                       ELSE Cell(q - 1, r - 1, Null,
                                 Conn(FALSE, FALSE, FALSE, FALSE), Null)],
                   gridMaxX + 1)], gridMaxY + 1)

\* "Final Grid Gen": grid[y + 1][x + 1] is the code's grid[y][x]
FinalGrid(c) ==
    IF Len(c.cells) = 0 THEN <<>>
    ELSE LET gridMaxX == SetMax({c.cells[i].x : i \in 1..Len(c.cells)})
             gridMaxY == SetMax({c.maxYUsed} \cup {c.cells[i].y : i \in 1..Len(c.cells)})
         IN  Array([r \in 1..(gridMaxY + 1) |->
                Array([q \in 1..(gridMaxX + 1) |->
                   LET found == FindIdx(c.cells, q - 1, r - 1)
                   IN  IF found # 0 THEN c.cells[found]
                       ELSE Cell(q - 1, r - 1, Null,
                                 Conn(FALSE, FALSE, FALSE, FALSE), Null)],
                   gridMaxX + 1)], gridMaxY + 1)

parseLadderLogic(insts) == FinalGrid(LayoutAfter(insts, Len(insts)))

-----------------------------------------------------------------------------
(* Power-flow analyzer *)

\* the key `${x},${y},${type}` of a terminal
Term(x, y, type) == <<x, y, type>>

GridAt(g, x, y) == g[y + 1][x + 1]

\* variant: a comparator cell does not conduct
Conducts_blockCompare(cell, ioState) ==
    IF cell.instruction = Null THEN TRUE
    ELSE LET inst       == cell.instruction[1]
             logicState == getBit(ioState, inst.value)
         IN  CASE inst.type \in {"LD", "AND", "OR"}    -> logicState
               [] inst.type \in {"LDI", "ANI", "ORI"} -> ~logicState
               [] inst.type \in {"LD_EQ", "AND_EQ", "OR_EQ"} -> FALSE
               [] OTHER -> TRUE

\* "LOGIC CONDUCTION CHECK"
Conducts(cell, ioState) ==
    IF cell.instruction = Null THEN TRUE
    ELSE LET inst       == cell.instruction[1]
             logicState == getBit(ioState, inst.value)
         IN  CASE inst.type \in {"LD", "AND", "OR"}    -> logicState
               [] inst.type \in {"LDI", "ANI", "ORI"} -> ~logicState
               [] OTHER -> TRUE

\* Expand without the upward propagation
Expand_noUp(g, ioState, item) ==
    LET x    == item[1]
        y    == item[2]
        rows == Len(g)
        cols == Len(g[1])
        cell == GridAt(g, x, y)
    IN  IF item[3] = "in"
        THEN (IF Conducts(cell, ioState) THEN <<Term(x, y, "out")>> ELSE <<>>)
        ELSE (IF cell.connections.right /\ x + 1 < cols
              THEN <<Term(x + 1, y, "in")>> ELSE <<>>)
             \o (IF cell.connections.down /\ y + 1 < rows
                 THEN <<Term(x, y + 1, "out")>> ELSE <<>>)

\* Expand whose downward propagation enters the cell below on its "in" side
Expand_downIn(g, ioState, item) ==
    LET x    == item[1]
        y    == item[2]
        rows == Len(g)
        cols == Len(g[1])
        cell == GridAt(g, x, y)
    IN  IF item[3] = "in"
        THEN (IF Conducts(cell, ioState) THEN <<Term(x, y, "out")>> ELSE <<>>)
        ELSE (IF cell.connections.right /\ x + 1 < cols
              THEN <<Term(x + 1, y, "in")>> ELSE <<>>)
             \o (IF cell.connections.down /\ y + 1 < rows
                 THEN <<Term(x, y + 1, "in")>> ELSE <<>>)
             \o (IF cell.connections.up /\ y - 1 >= 0
                 THEN <<Term(x, y - 1, "out")>> ELSE <<>>)

\* what the loop body pushes on the queue for the item <<x, y, type>>
Expand(g, ioState, item) ==
    LET x    == item[1]
        y    == item[2]
        rows == Len(g)
        cols == Len(g[1])
        cell == GridAt(g, x, y)
    IN  IF item[3] = "in"
        THEN (IF Conducts(cell, ioState) THEN <<Term(x, y, "out")>> ELSE <<>>)
        ELSE (IF cell.connections.right /\ x + 1 < cols
              THEN <<Term(x + 1, y, "in")>> ELSE <<>>)
             \o (IF cell.connections.down /\ y + 1 < rows
                 THEN <<Term(x, y + 1, "out")>> ELSE <<>>)
             \o (IF cell.connections.up /\ y - 1 >= 0
                 THEN <<Term(x, y - 1, "out")>> ELSE <<>>)

\* "2. BFS Traversal": the while loop, from a queue and a visited set
RECURSIVE Bfs(_, _, _, _)
Bfs(g, ioState, queue, visited) ==
    IF Len(queue) = 0 THEN visited
    ELSE IF Head(queue) \in visited THEN Bfs(g, ioState, Tail(queue), visited)
    ELSE Bfs(g, ioState, Tail(queue) \o Expand(g, ioState, Head(queue)),
             visited \cup {Head(queue)})

calculatePowerFlow(g, ioState) ==
    IF Len(g) = 0 THEN {}
    ELSE Bfs(g, ioState, Array([r \in 1..Len(g) |-> Term(0, r - 1, "in")], Len(g)), {})

-----------------------------------------------------------------------------
(* Names and programs *)

X0 == <<"X", "0">>

X1 == <<"X", "1">>

X2 == <<"X", "2">>

X3 == <<"X", "3">>

Y0 == <<"Y", "0">>

Y1 == <<"Y", "1">>

Y2 == <<"Y", "2">>

T0 == <<"T", "0">>

C0 == <<"C", "0">>

D0 == <<"D", "0">>

K1 == <<"K", "1">>

K3 == <<"K", "3">>

K10 == <<"K", "1", "0">>

TEST_CASE_SELF_HOLDING ==
    << Inst(1, "LD", X0, <<>>), Inst(2, "OR", Y0, <<>>),
       Inst(3, "ANI", X1, <<>>), Inst(4, "OUT", Y0, <<>>) >>

TEST_CASE_NESTED_ORB ==
    << Inst(1, "LD", X0, <<>>), Inst(2, "LD", X1, <<>>),
       Inst(3, "AND", X2, <<>>), Inst(4, "ORB", <<>>, <<>>),
       Inst(5, "OUT", Y0, <<>>) >>

\* "LD X0 / OUT T0 K10" and "LD X0 / OUT C0 K3" as parseMnemonic emits them
TimerProgram == << Inst(1, "LD", X0, <<X0>>), Inst(2, "OUT", T0, <<T0, K10>>) >>

CounterProgram == << Inst(1, "LD", X0, <<X0>>), Inst(2, "OUT", C0, <<C0, K3>>) >>

SingleLD == << Inst(1, "LD", X0, <<>>) >>

\* the operands of the contacts of a program: what a click on a cell toggles
ContactKeys(insts) ==
    {insts[i].value : i \in {j \in 1..Len(insts) :
        insts[j].type \in {"LD", "LDI", "AND", "ANI", "OR", "ORI"}}}

DtSet == {100, 200}

-----------------------------------------------------------------------------
(* Operations of the host and of the simulator session *)

\* useLadderSimulator.toggleBit
toggleBit(key) ==
    /\ isSimulating
    /\ stateRef' = [stateRef EXCEPT !.io = Put(@, key, ~getBit(@, key))]
    /\ UNCHANGED <<instructions, isSimulating, prevState, dt, scans, held,
                   rises, grid, laidOut, energized, flowIo, rungAt, bfs, edits,
                   layouts, imports,
                   loopRef, intervals>>

\* The rung every MOVP of the program reads in a scan from prev: the top of
\* the stack when the instruction is reached, recorded under the instruction
\* id together with what the record of the scan before, old, held for that id
MovpRungs(insts, prev, d, old) ==
    LET at == {i \in 1..Len(insts) : insts[i].type = "MOVP"}
        ids == {insts[i].id : i \in at}
    IN  [id \in ids |->
            LET i == CHOOSE j \in at : insts[j].id = id
            IN  [index |-> i,
                 rung |-> Peek(MachineAfter(insts, prev, d, i - 1).stack),
                 wasIndex |-> IF Has(old, id) THEN old[id].index ELSE 0,
                 wasRung |-> Has(old, id) /\ old[id].rung]]

\* calculatePowerFlow before its first call and after it has returned
BfsIdle == [running |-> FALSE, queue |-> <<>>, visited |-> {}, polls |-> 0,
            expansions |-> 0]

\* useLadderSimulator.runLoop, one tick of the interval; limit caps the
\* number of scans of a behaviour
RunLoop(d, limit) ==
    /\ intervals > 0
    /\ scans < limit
    /\ prevState' = stateRef
    /\ dt' = d
    /\ stateRef' = runScanCycle(instructions, stateRef, d)
    /\ scans' = scans + 1
    /\ held' = IF getBit(stateRef.io, X0) THEN Append(held, d) ELSE <<>>
    /\ rises' = IF getBit(stateRef.io, X0) /\ held = <<>> THEN rises + 1 ELSE rises
    /\ rungAt' = MovpRungs(instructions, stateRef, d, rungAt)
    /\ UNCHANGED <<instructions, isSimulating, grid, laidOut, energized, flowIo,
                   bfs, edits,
                   layouts, imports,
                   loopRef, intervals>>

runLoop == \E d \in DtSet : RunLoop(d, MaxScans)

clickContact == \E key \in ContactKeys(instructions) : toggleBit(key)

\* App: useEffect "Parse Grid when instructions change"
updateGrid ==
    /\ ~laidOut
    /\ grid' = parseLadderLogic(instructions)
    /\ laidOut' = TRUE
    /\ layouts' = Append(layouts, [instructions |-> instructions,
                                   grid |-> parseLadderLogic(instructions)])
    /\ UNCHANGED <<instructions, stateRef, isSimulating, prevState, dt, scans,
                   held, rises, energized, flowIo, rungAt, bfs, edits, imports,
                   loopRef, intervals>>

\* App: useMemo "Calculate Power Flow (Live Wires) when Grid or IO changes"
energize ==
    /\ laidOut
    /\ isSimulating
    /\ flowIo # Some(stateRef.io)
    /\ energized' = calculatePowerFlow(grid, stateRef.io)
    /\ flowIo' = Some(stateRef.io)
    /\ UNCHANGED <<instructions, stateRef, isSimulating, prevState, dt, scans,
                   held, rises, grid, laidOut, rungAt, bfs, edits,
                   layouts, imports,
                   loopRef, intervals>>

InitWith(programs, states) ==
    /\ instructions \in programs
    /\ stateRef \in states
    /\ isSimulating = TRUE
    /\ prevState = EmptyState
    /\ dt = 0
    /\ scans = 0
    /\ held = <<>>
    /\ rises = 0
    /\ grid = <<>>
    /\ laidOut = FALSE
    /\ energized = {}
    /\ flowIo = Null
    /\ rungAt = EmptyMap
    /\ bfs = BfsIdle
    /\ edits = 0
    /\ layouts = <<>>
    /\ imports = <<>>
    /\ loopRef = TRUE
    /\ intervals = 1

-----------------------------------------------------------------------------
(* Simulation of the three reference rungs from the empty state *)

InitSim ==
    InitWith({TEST_CASE_SELF_HOLDING, TimerProgram, CounterProgram}, {EmptyState})

NextSim == clickContact \/ runLoop

SpecSim == InitSim /\ [][NextSim]_vars

-----------------------------------------------------------------------------
(* Layout and power flow of the reference programs *)

InitView ==
    InitWith({TEST_CASE_SELF_HOLDING, TEST_CASE_NESTED_ORB, SingleLD, <<>>},
             {EmptyState})

NextView == updateGrid \/ clickContact \/ energize

SpecView == InitView /\ [][NextView]_vars

\* the cells of a grid, and those an instruction index produced
GridCells(g) == {g[r][q] : r \in 1..Len(g), q \in 1..(IF Len(g) = 0 THEN 0 ELSE Len(g[1]))}

CellsOf(g, index) == {c \in GridCells(g) : c.sourceIndex = Some(index)}

-----------------------------------------------------------------------------
(* Generated instruction sequences *)

Tmpl(type, value, args) == [type |-> type, value |-> value, args |-> args]

\* ids 1..n in sequence order, as parseMnemonic assigns them
MkProg(ts) ==
    Array([i \in 1..Len(ts) |-> Inst(i, ts[i].type, ts[i].value, ts[i].args)], Len(ts))

SeqsUpTo(S, n) == UNION {[1..k -> S] : k \in 0..n}

\* "NOP" and "END" stand for opcodes outside the InstructionType enumeration
UnknownTypes == {"NOP", "END"}

ScanAlphabet ==
    { Tmpl("LD", X0, <<X0>>), Tmpl("LDI", X0, <<X0>>),
      Tmpl("AND", X0, <<X0>>), Tmpl("ANI", X0, <<X0>>),
      Tmpl("OR", X0, <<X0>>), Tmpl("ORI", X0, <<X0>>),
      Tmpl("ORB", <<>>, <<>>), Tmpl("ANB", <<>>, <<>>),
      Tmpl("LD_EQ", D0, <<D0, K1>>), Tmpl("AND_EQ", D0, <<D0, K1>>),
      Tmpl("OR_EQ", D0, <<D0, K1>>),
      Tmpl("MPS", <<>>, <<>>), Tmpl("MRD", <<>>, <<>>), Tmpl("MPP", <<>>, <<>>),
      Tmpl("OUT", Y0, <<Y0>>), Tmpl("OUT", T0, <<T0, K1>>),
      Tmpl("OUT", C0, <<C0, K1>>),
      Tmpl("SET", Y0, <<Y0>>), Tmpl("RST", Y0, <<Y0>>), Tmpl("RST", C0, <<C0>>),
      Tmpl("RST", T0, <<T0>>), Tmpl("RST", D0, <<D0>>),
      Tmpl("MOV", K1, <<K1, D0>>), Tmpl("MOVP", K1, <<K1, D0>>),
      Tmpl("NOP", X0, <<X0>>), Tmpl("END", <<>>, <<>>) }

ScanPrograms == {MkProg(ts) : ts \in SeqsUpTo(ScanAlphabet, MaxLen)}

\* previous states: the empty state, a state with one input set, and a state
\* with an entry in every map the program names and in mpsStack
ScanStates ==
    { EmptyState,
      [EmptyState EXCEPT !.io = Put(EmptyMap, X0, TRUE)],
      [io |-> Put(Put(EmptyMap, X0, TRUE), Y0, TRUE),
       data |-> Put(EmptyMap, D0, 1),
       timers |-> Put(EmptyMap, T0, 100),
       counters |-> Put(EmptyMap, C0, 2),
       edgeMemory |-> Put(EmptyMap, C0, TRUE),
       mpsStack |-> <<TRUE>>] }

\* a run of outputs on one rung
OutputRun ==
    << Inst(1, "LD", X0, <<X0>>), Inst(2, "OUT", Y0, <<Y0>>),
       Inst(3, "OUT", Y1, <<Y1>>) >>

\* a latch that sets itself on the first scan
LatchProgram == << Inst(1, "LDI", Y0, <<Y0>>), Inst(2, "SET", Y0, <<Y0>>) >>

\* three branches off one saved rung
MpsProgram ==
    << Inst(1, "LD", X0, <<X0>>), Inst(2, "MPS", <<>>, <<>>),
       Inst(3, "AND", X1, <<X1>>), Inst(4, "OUT", Y0, <<Y0>>),
       Inst(5, "MRD", <<>>, <<>>), Inst(6, "AND", X2, <<X2>>),
       Inst(7, "OUT", Y1, <<Y1>>), Inst(8, "MPP", <<>>, <<>>),
       Inst(9, "AND", X3, <<X3>>), Inst(10, "OUT", Y2, <<Y2>>) >>

\* the states in which any of the given bits are on and nothing else is set
IoStates(keys) == {[EmptyState EXCEPT !.io = [k \in on |-> TRUE]] : on \in SUBSET keys}

InitScan ==
    \/ InitWith(ScanPrograms, ScanStates)
    \/ InitWith({OutputRun, LatchProgram}, ScanStates)
    \/ InitWith({MpsProgram}, IoStates({X0, X1, X2, X3}))

scanOnce == \E d \in DtSet : RunLoop(d, MaxRuns)

NextScan == scanOnce

SpecScan == InitScan /\ [][NextScan]_vars

LayoutAlphabet ==
    { Tmpl("LD", X0, <<X0>>), Tmpl("OR", X1, <<X1>>), Tmpl("AND", X2, <<X2>>),
      Tmpl("OUT", Y0, <<Y0>>), Tmpl("ORB", <<>>, <<>>), Tmpl("ANB", <<>>, <<>>),
      Tmpl("MPS", <<>>, <<>>), Tmpl("MRD", <<>>, <<>>), Tmpl("MPP", <<>>, <<>>),
      Tmpl("NOP", X0, <<X0>>) }

LayoutPrograms == {MkProg(ts) : ts \in SeqsUpTo(LayoutAlphabet, MaxLayoutLen)}

\* a branch shorter than the rung it parallels
ShortBranch ==
    << Inst(1, "LD", X0, <<X0>>), Inst(2, "AND", X2, <<X2>>),
       Inst(3, "OR", X1, <<X1>>), Inst(4, "OUT", Y0, <<Y0>>) >>

\* two blocks of unequal width, merged
UnevenBlocks ==
    << Inst(1, "LD", X0, <<X0>>), Inst(2, "AND", X2, <<X2>>),
       Inst(3, "LD", X1, <<X1>>), Inst(4, "ORB", <<>>, <<>>),
       Inst(5, "OUT", Y0, <<Y0>>) >>

\* a block of two rows in series with a rung of two contacts
SeriesBlocks ==
    << Inst(1, "LD", X0, <<X0>>), Inst(2, "AND", X2, <<X2>>),
       Inst(3, "LD", X1, <<X1>>), Inst(4, "OR", X3, <<X3>>),
       Inst(5, "ANB", <<>>, <<>>), Inst(6, "OUT", Y0, <<Y0>>) >>

InitLayout ==
    InitWith(LayoutPrograms \cup {ShortBranch, UnevenBlocks, SeriesBlocks}, {EmptyState})

NextLayout == updateGrid

SpecLayout == InitLayout /\ [][NextLayout]_vars

\* a machine of the scan without its logic stack: the persistent maps
Persistent(m) ==
    [io |-> m.io, data |-> m.data, timers |-> m.timers, counters |-> m.counters,
     edgeMemory |-> m.edgeMemory, mpsStack |-> m.mpsStack]

\* the locals of the latest scan before and after its i-th instruction
Before(i) == MachineAfter(instructions, prevState, dt, i - 1)

After(i) == MachineAfter(instructions, prevState, dt, i)

\* the result of the i-th instruction of the latest scan had the logic stack
\* been s
AfterOn(i, s) == ExecInst([Before(i) EXCEPT !.stack = s], instructions[i], dt)

IsState(st) ==
    /\ DOMAIN st = {"io", "data", "timers", "counters", "edgeMemory", "mpsStack"}
    /\ \A k \in DOMAIN st.io : st.io[k] \in BOOLEAN
    /\ \A k \in DOMAIN st.data : st.data[k] \in Int
    /\ \A k \in DOMAIN st.timers : st.timers[k] \in Int
    /\ \A k \in DOMAIN st.counters : st.counters[k] \in Int
    /\ \A k \in DOMAIN st.edgeMemory : st.edgeMemory[k] \in BOOLEAN
    /\ \A k \in 1..Len(st.mpsStack) : st.mpsStack[k] \in BOOLEAN

-----------------------------------------------------------------------------
(* Claims *)

\* C1: for [LD X0, OR Y0, ANI X1, OUT Y0] every scan yields
\* io'[Y0] = (io[X0] or io[Y0]) and not io[X1]; hence X0 sets Y0, Y0 holds
\* itself while X1 is false, and X1 resets it whatever X0 and Y0 are.
C1_SelfHolding ==
    [][(instructions = TEST_CASE_SELF_HOLDING /\ scans' = scans + 1) =>
          /\ Has(stateRef'.io, Y0)
          /\ stateRef'.io[Y0] =
                ((getBit(stateRef.io, X0) \/ getBit(stateRef.io, Y0))
                 /\ ~getBit(stateRef.io, X1))]_vars

\* a scan that kept Y0 true with X0 false and X1 false (self-hold)
C1_Witness ==
    /\ instructions = TEST_CASE_SELF_HOLDING
    /\ scans >= 2
    /\ ~getBit(prevState.io, X0) /\ ~getBit(prevState.io, X1)
    /\ getBit(prevState.io, Y0)
    /\ stateRef = runScanCycle(instructions, prevState, dt)
    /\ getBit(stateRef.io, Y0)

\* C2: OUT T0 K10 from the empty state: a scan with a false rung leaves
\* timers[T0] = 0 and io[T0] = false; while the rung is held true over
\* scans of dt = 200, io[T0] is false after the first four and true from
\* the fifth on.
C2_Timer ==
    (instructions = TimerProgram /\ scans > 0) =>
        /\ held = <<>> =>
              /\ Has(stateRef.timers, T0) /\ stateRef.timers[T0] = 0
              /\ Has(stateRef.io, T0) /\ stateRef.io[T0] = FALSE
        /\ (held # <<>> /\ \A i \in 1..Len(held) : held[i] = 200) =>
              /\ getBit(stateRef.io, T0) = (Len(held) >= 5)
              /\ NumOr0(stateRef.timers, T0) = 200 * Len(held)

\* the fifth consecutive scan of dt = 200 with the rung true
C2_Witness ==
    /\ instructions = TimerProgram
    /\ held = <<200, 200, 200, 200, 200>>
    /\ getBit(stateRef.io, T0)
    /\ ~getBit(prevState.io, T0)

\* C3: OUT C0 K3 from the empty state: counters[C0] is the number of
\* false-to-true transitions of the rung between scans (the rung counts as
\* false before the first scan), so scans that keep the rung true count
\* once, and io[C0] is true exactly from the third transition on.
C3_Counter ==
    (instructions = CounterProgram /\ scans > 0) =>
        /\ NumOr0(stateRef.counters, C0) = rises
        /\ getBit(stateRef.io, C0) = (rises >= 3)

\* the scan of the third transition, reached after the rung was held true
\* over several scans without counting more than once
C3_Witness ==
    /\ instructions = CounterProgram
    /\ rises = 3
    /\ scans >= 6
    /\ getBit(stateRef.io, C0)
    /\ ~getBit(prevState.io, C0)
    /\ NumOr0(stateRef.counters, C0) = 3

\* C4: in the grid of [LD X0, OR Y0, ANI X1, OUT Y0] the 'in' terminal of
\* the OUT Y0 cell is energized when Y0 is true and X1 false (X0 either
\* value) and is not energized when X1 is true.
C4_PowerFlowSelfHolding ==
    (instructions = TEST_CASE_SELF_HOLDING /\ laidOut /\ flowIo # Null) =>
        LET io   == flowIo[1]
            outs == CellsOf(grid, 3)
        IN  /\ Cardinality(outs) = 1
            /\ \A c \in outs :
                  /\ c.instruction = Some(instructions[4])
                  /\ (getBit(io, Y0) /\ ~getBit(io, X1))
                        => Term(c.x, c.y, "in") \in energized
                  /\ getBit(io, X1) => Term(c.x, c.y, "in") \notin energized

\* power reaches OUT Y0 through the self-holding branch alone
C4_Witness ==
    /\ instructions = TEST_CASE_SELF_HOLDING
    /\ laidOut
    /\ flowIo = Some(stateRef.io)
    /\ getBit(stateRef.io, Y0) /\ ~getBit(stateRef.io, X0)
    /\ Has(stateRef.io, X1) /\ ~stateRef.io[X1]
    /\ Term(2, 0, "in") \in energized

\* C5: layout([LD X0, LD X1, AND X2, ORB, OUT Y0]) puts the two LD chains
\* on two distinct rows; at the merge column (the column left of OUT Y0) the
\* cell of the upper row has a down-connection and the cell of the lower row
\* an up-connection, both with a right-connection; no cell of the grid holds
\* the ORB instruction or its index.
C5_NestedOrb ==
    (instructions = TEST_CASE_NESTED_ORB /\ laidOut) =>
        /\ CellsOf(grid, 3) = {}
        /\ \A c \in GridCells(grid) :
              c.instruction = Null \/ c.instruction[1].type # "ORB"
        /\ \A a \in CellsOf(grid, 0), b \in CellsOf(grid, 1), o \in CellsOf(grid, 4) :
              /\ a.y < b.y
              /\ o.x >= 1 /\ o.y = a.y
              /\ GridAt(grid, o.x - 1, a.y).connections.down
              /\ GridAt(grid, o.x - 1, a.y).connections.right
              /\ GridAt(grid, o.x - 1, b.y).connections.up
              /\ GridAt(grid, o.x - 1, b.y).connections.right
              /\ ~GridAt(grid, o.x - 1, a.y).connections.up
              /\ ~GridAt(grid, o.x - 1, b.y).connections.down
        /\ Cardinality(CellsOf(grid, 0)) = 1
        /\ Cardinality(CellsOf(grid, 1)) = 1
        /\ Cardinality(CellsOf(grid, 4)) = 1

\* the laid-out nested block: a wire cell pads the upper row up to the merge
\* column, where AND X2 ends the lower row
C5_Witness ==
    /\ instructions = TEST_CASE_NESTED_ORB
    /\ laidOut
    /\ Len(grid) = 2 /\ Len(grid[1]) = 3
    /\ GridAt(grid, 1, 0).instruction = Null
    /\ GridAt(grid, 1, 0).connections.down
    /\ GridAt(grid, 1, 1).sourceIndex = Some(2)

\* C6 as stated: layout([]) is the empty grid and layout([LD X0]) is a 1x1
\* grid whose only cell holds the instruction and has left, right, up and
\* down all false.
C6_Original ==
    /\ (instructions = <<>> /\ laidOut) => grid = <<>>
    /\ (instructions = SingleLD /\ laidOut) =>
          /\ Len(grid) = 1 /\ Len(grid[1]) = 1
          /\ GridAt(grid, 0, 0).instruction = Some(instructions[1])
          /\ GridAt(grid, 0, 0).connections = Conn(FALSE, FALSE, FALSE, FALSE)

\* C6 amended: as C6, but the only cell has right = true (left, up and down
\* are false).
C6_Amended ==
    /\ (instructions = <<>> /\ laidOut) => grid = <<>>
    /\ (instructions = SingleLD /\ laidOut) =>
          /\ Len(grid) = 1 /\ Len(grid[1]) = 1
          /\ GridAt(grid, 0, 0).instruction = Some(instructions[1])
          /\ GridAt(grid, 0, 0).sourceIndex = Some(0)
          /\ GridAt(grid, 0, 0).connections = Conn(FALSE, FALSE, FALSE, TRUE)

\* the single LD X0 has been laid out
C6_Witness ==
    /\ instructions = SingleLD
    /\ laidOut
    /\ Len(grid) = 1
    /\ GridAt(grid, 0, 0).x = 0 /\ GridAt(grid, 0, 0).y = 0

\* C7: a scan never faults on underflow and returns a complete state.
\* AND/ANI/OR/ORI/AND_EQ/OR_EQ on an empty logic stack act as on the stack
\* <<false>>; ORB/ANB on fewer than two entries push the value they push when
\* the missing entries are false, and change nothing else; OUT/SET/RST/MOV/
\* MOVP on an empty stack change the maps as with a false rung; MRD/MPP on
\* an empty mpsStack push false.
C7_Underflow ==
    scans > 0 =>
        /\ IsState(stateRef)
        /\ stateRef = Persistent(After(Len(instructions)))
        /\ \A i \in 1..Len(instructions) :
              LET type == instructions[i].type
                  b    == Before(i)
                  a    == After(i)
              IN  /\ (type \in {"AND", "ANI", "OR", "ORI", "AND_EQ", "OR_EQ"}
                      /\ b.stack = <<>>)
                        => a = AfterOn(i, <<FALSE>>)
                  /\ (type \in {"ORB", "ANB"} /\ Len(b.stack) < 2) =>
                        /\ Len(a.stack) >= 1
                        /\ a.stack[Len(a.stack)]
                             = Peek(AfterOn(i, <<FALSE, FALSE>> \o b.stack).stack)
                        /\ Persistent(a) = Persistent(b)
                  /\ (type \in {"OUT", "SET", "RST", "MOV", "MOVP"}
                      /\ b.stack = <<>>) =>
                        /\ Persistent(a) = Persistent(AfterOn(i, <<FALSE>>))
                        /\ a.stack = <<>>
                  /\ (type \in {"MRD", "MPP"} /\ b.mpsStack = <<>>) =>
                        /\ a.stack = Append(b.stack, FALSE)
                        /\ Persistent(a) = Persistent(b)

\* a scan of [OR X0, ORB] with X0 true: OR on the empty stack, then ORB on
\* a stack of one entry
C7_Witness ==
    /\ scans > 0
    /\ Len(instructions) = 2
    /\ instructions[1].type = "OR" /\ instructions[2].type = "ORB"
    /\ getBit(prevState.io, X0)
    /\ Before(1).stack = <<>>
    /\ Before(2).stack = <<TRUE>>
    /\ After(2).stack = <<TRUE>>
    /\ stateRef = prevState

\* C8 as stated: in layout, ORB/ANB with an empty block stack and MRD/MPP
\* with an empty anchor stack emit no cell and leave the current block, the
\* block stack, the anchor stack, the used-row counter (and the cells)
\* unchanged.
C8_DanglingNoOp ==
    laidOut =>
        \A i \in 1..Len(instructions) :
            LET b == LayoutAfter(instructions, i - 1)
            IN  ((instructions[i].type \in {"ORB", "ANB"} /\ b.blockStack = <<>>)
                 \/ (instructions[i].type \in {"MRD", "MPP"} /\ b.mpsStack = <<>>))
                =>  /\ LayoutAfter(instructions, i) = b
                    /\ CellsOf(grid, i - 1) = {}

\* C9 as stated: in layout, an instruction of an unknown opcode emits no
\* cell, sets no connection and does not advance the block cursor.
C9_UnknownInert ==
    laidOut =>
        \A i \in 1..Len(instructions) :
            instructions[i].type \in UnknownTypes
            =>  /\ LayoutAfter(instructions, i) = LayoutAfter(instructions, i - 1)
                /\ CellsOf(grid, i - 1) = {}

\* C10: a scan of an empty program, or of a program of unknown opcodes only,
\* returns a state equal to the previous one in io, data, timers, counters,
\* edgeMemory and mpsStack, for every previous state and dt.
C10_EmptyProgramFrame ==
    (scans > 0 /\ \A i \in 1..Len(instructions) : instructions[i].type \in UnknownTypes)
        => stateRef = prevState

\* a scan of two unknown opcodes over a state with entries in its maps and
\* in its mpsStack
C10_Witness ==
    /\ scans > 0
    /\ Len(instructions) = 2
    /\ \A i \in 1..2 : instructions[i].type \in UnknownTypes
    /\ prevState.mpsStack = <<TRUE>>
    /\ getBit(prevState.io, X0)
    /\ NumOr0(prevState.data, D0) = 1
    /\ stateRef = prevState

-----------------------------------------------------------------------------
(* The grid as a rectangle *)

\* every cell the layout emitted for instructions, instruction cells and
\* synthetic wire cells alike, before the final grid is materialized
Emitted == LayoutAfter(instructions, Len(instructions)).cells

EmittedAt(x, y) == {i \in 1..Len(Emitted) : Emitted[i].x = x /\ Emitted[i].y = y}

Placeholder(x, y) == Cell(x, y, Null, Conn(FALSE, FALSE, FALSE, FALSE), Null)

\* C11: whenever the layout emits at least one cell, the grid has rows
\* 0..maxY, each of length maxX+1, for maxX, maxY the largest coordinates of
\* the emitted cells; the cell at grid[y][x] has coordinates (x,y); and a
\* position no emitted cell occupies holds a placeholder without instruction,
\* without sourceIndex and with all four connections false.
C11_CompleteRectangle ==
    (laidOut /\ Len(Emitted) > 0) =>
        LET maxX == SetMax({Emitted[i].x : i \in 1..Len(Emitted)})
            maxY == SetMax({Emitted[i].y : i \in 1..Len(Emitted)})
        IN  /\ \A i \in 1..Len(Emitted) : Emitted[i].x >= 0 /\ Emitted[i].y >= 0
            /\ Len(grid) = maxY + 1
            /\ \A y \in 0..maxY :
                  /\ Len(grid[y + 1]) = maxX + 1
                  /\ \A x \in 0..maxX :
                        /\ GridAt(grid, x, y).x = x
                        /\ GridAt(grid, x, y).y = y
                        /\ EmittedAt(x, y) = {} => GridAt(grid, x, y) = Placeholder(x, y)
                        /\ EmittedAt(x, y) # {} =>
                              \E i \in EmittedAt(x, y) : GridAt(grid, x, y) = Emitted[i]

\* a laid-out grid of two rows holding an instruction cell, a synthetic wire
\* cell and a placeholder
C11_Witness ==
    /\ laidOut
    /\ Len(grid) >= 2
    /\ \E i \in 1..Len(Emitted) : Emitted[i].sourceIndex # Null
    /\ \E i \in 1..Len(Emitted) : Emitted[i].sourceIndex = Null
    /\ \E y \in 0..(Len(grid) - 1) : \E x \in 0..(Len(grid[1]) - 1) :
          EmittedAt(x, y) = {} /\ GridAt(grid, x, y) = Placeholder(x, y)

-----------------------------------------------------------------------------
(* calculatePowerFlow, one iteration of its loop at a time *)

MaxFlowLen == 3

MaxPolls == 150

\* "1. Initialize Source": the queue before the loop
FlowSeed(g) == Array([r \in 1..Len(g) |-> Term(0, r - 1, "in")], Len(g))

\* one iteration of the while loop without the visited check
FlowVisit_noVisited(b, g, ioState) ==
    LET item == Head(b.queue)
    IN  [b EXCEPT !.queue = Tail(b.queue) \o Expand(g, ioState, item),
                  !.visited = @ \cup {item},
                  !.polls = @ + 1,
                  !.expansions = @ + 1]

\* one iteration of the while loop: shift an item, skip it when visited,
\* otherwise mark it and push what it feeds
FlowVisit(b, g, ioState) ==
    LET item == Head(b.queue)
    IN  IF item \in b.visited
        THEN [b EXCEPT !.queue = Tail(b.queue), !.polls = @ + 1]
        ELSE [b EXCEPT !.queue = Tail(b.queue) \o Expand(g, ioState, item),
                       !.visited = @ \cup {item},
                       !.polls = @ + 1,
                       !.expansions = @ + 1]

\* the call of calculatePowerFlow up to the loop
flowStart ==
    /\ laidOut
    /\ isSimulating
    /\ ~bfs.running
    /\ flowIo # Some(stateRef.io)
    /\ flowIo' = Some(stateRef.io)
    /\ IF Len(grid) = 0
       THEN bfs' = BfsIdle /\ energized' = {}
       ELSE /\ bfs' = [running |-> TRUE, queue |-> FlowSeed(grid), visited |-> {},
                       polls |-> 0, expansions |-> 0]
            /\ UNCHANGED energized
    /\ UNCHANGED <<instructions, stateRef, isSimulating, prevState, dt, scans,
                   held, rises, grid, laidOut, rungAt, edits,
                   layouts, imports,
                   loopRef, intervals>>

flowStep ==
    /\ bfs.running
    /\ Len(bfs.queue) > 0
    /\ bfs.polls < MaxPolls
    /\ bfs' = FlowVisit(bfs, grid, flowIo[1])
    /\ UNCHANGED <<instructions, stateRef, isSimulating, prevState, dt, scans,
                   held, rises, grid, laidOut, energized, flowIo, rungAt, edits,
                   layouts, imports,
                   loopRef, intervals>>

\* the loop exit and the return of the visited set
flowEnd ==
    /\ bfs.running
    /\ Len(bfs.queue) = 0
    /\ energized' = bfs.visited
    /\ bfs' = [bfs EXCEPT !.running = FALSE]
    /\ UNCHANGED <<instructions, stateRef, isSimulating, prevState, dt, scans,
                   held, rises, grid, laidOut, flowIo, rungAt, edits,
                   layouts, imports,
                   loopRef, intervals>>

FlowAlphabet ==
    { Tmpl("LD", X0, <<>>), Tmpl("OR", X1, <<>>), Tmpl("ANI", X2, <<>>),
      Tmpl("OUT", Y0, <<>>), Tmpl("MPS", <<>>, <<>>), Tmpl("MRD", <<>>, <<>>) }

FlowPrograms == {MkProg(ts) : ts \in SeqsUpTo(FlowAlphabet, MaxFlowLen)}

\* the io maps in which any of the contacts of the alphabet are on
FlowStates ==
    {[EmptyState EXCEPT !.io = [k \in on |-> TRUE]] : on \in SUBSET {X0, X1, X2}}

InitFlow == InitWith(FlowPrograms, FlowStates)

NextFlow == updateGrid \/ flowStart \/ flowStep \/ flowEnd

SpecFlow == InitFlow /\ [][NextFlow]_vars

\* calculatePowerFlow is synchronous code: once called, its loop runs on
SpecFlowLive == SpecFlow /\ WF_vars(flowStep) /\ WF_vars(flowEnd)

-----------------------------------------------------------------------------
(* The energized set as a least fixed point *)

AllTerms(g) ==
    IF Len(g) = 0 THEN {}
    ELSE {Term(x, y, side) : x \in 0..(Len(g[1]) - 1), y \in 0..(Len(g) - 1),
                             side \in {"in", "out"}}

\* the conduction rule: no instruction, a normally-open contact with its bit
\* true, a normally-closed contact with its bit false, or any other kind
RuleConducts(cell, ioState) ==
    \/ cell.instruction = Null
    \/ /\ cell.instruction # Null
       /\ LET inst == cell.instruction[1]
          IN  \/ inst.type \in {"LD", "AND", "OR"} /\ getBit(ioState, inst.value)
              \/ inst.type \in {"LDI", "ANI", "ORI"} /\ ~getBit(ioState, inst.value)
              \/ inst.type \notin {"LD", "AND", "OR", "LDI", "ANI", "ORI"}

\* t is in every set closed under the rules as soon as S is part of it
Feeds(g, ioState, S, t) ==
    LET x == t[1]
        y == t[2]
    IN  \/ t[3] = "in" /\ x = 0
        \/ /\ t[3] = "out"
           /\ Term(x, y, "in") \in S
           /\ RuleConducts(GridAt(g, x, y), ioState)
        \/ /\ t[3] = "in"
           /\ x > 0
           /\ Term(x - 1, y, "out") \in S
           /\ GridAt(g, x - 1, y).connections.right
        \/ /\ t[3] = "out"
           /\ y > 0
           /\ Term(x, y - 1, "out") \in S
           /\ GridAt(g, x, y - 1).connections.down
        \/ /\ t[3] = "out"
           /\ y + 1 < Len(g)
           /\ Term(x, y + 1, "out") \in S
           /\ GridAt(g, x, y + 1).connections.up

RECURSIVE Closure(_, _, _)
Closure(g, ioState, S) ==
    LET N == S \cup {t \in AllTerms(g) : Feeds(g, ioState, S, t)}
    IN  IF N = S THEN S ELSE Closure(g, ioState, N)

LeastSet(g, ioState) == Closure(g, ioState, {})

FlowDone == laidOut /\ flowIo # Null /\ ~bfs.running

\* C12: the set calculatePowerFlow returns for a grid and an io map is the
\* least set of terminals that holds the "in" of every column-0 cell, the
\* "out" of every conducting cell whose "in" it holds, and, for every "out" it
\* holds, the "in" of the right neighbour over a right-connection and the
\* "out" of the cell below / above over a down- / up-connection.
C12_LeastSet ==
    FlowDone =>
        /\ energized = LeastSet(grid, flowIo[1])
        /\ energized = calculatePowerFlow(grid, flowIo[1])

\* a finished run in which a contact blocks and its "out" terminal is in the
\* result all the same, reached from the conducting contact below it
C12_Witness ==
    /\ FlowDone
    /\ \E t \in energized :
          /\ t[3] = "out"
          /\ GridAt(grid, t[1], t[2]).instruction # Null
          /\ ~RuleConducts(GridAt(grid, t[1], t[2]), flowIo[1])
          /\ t[2] + 1 < Len(grid)
          /\ GridAt(grid, t[1], t[2] + 1).connections.up
          /\ GridAt(grid, t[1], t[2] + 1).instruction # Null
          /\ Term(t[1], t[2] + 1, "out") \in energized
          /\ (t[2] > 0 => Term(t[1], t[2] - 1, "out") \notin energized)

NumCells(g) == IF Len(g) = 0 THEN 0 ELSE Len(g) * Len(g[1])

\* a cell whose down-connection meets an up-connection of the cell below
HasCycle(g) ==
    \E y \in 0..(Len(g) - 2) : \E x \in 0..(Len(g[1]) - 1) :
        GridAt(g, x, y).connections.down /\ GridAt(g, x, y + 1).connections.up

\* C13: a run of calculatePowerFlow ends on every grid and io map, cyclic
\* wiring included; it expands every terminal at most once, so the number of
\* expansions never exceeds twice the number of cells.
C13_Terminates ==
    /\ [](bfs.expansions = Cardinality(bfs.visited))
    /\ [](bfs.expansions <= 2 * NumCells(grid))
    /\ (bfs.running ~> ~bfs.running)

\* a finished run over a grid with a wiring cycle, in which the loop met a
\* terminal again after having expanded it
C13_Witness ==
    /\ FlowDone
    /\ HasCycle(grid)
    /\ bfs.expansions >= 4
    /\ bfs.polls > bfs.expansions

\* C14: every "in" terminal of the result right of column 0 was reached over
\* the right-connection of its left neighbour, whose "out" is in the result;
\* up- and down-connections energize "out" terminals only.
C14_VerticalStaysOut ==
    \A t \in energized :
        (t[3] = "in" /\ t[1] > 0) =>
            /\ Term(t[1] - 1, t[2], "out") \in energized
            /\ GridAt(grid, t[1] - 1, t[2]).connections.right

\* power went down a vertical edge right of column 0 and energized the "out"
\* of the cell below, whose "in" stays out of the result
C14_Witness ==
    /\ FlowDone
    /\ \E t \in energized :
          /\ t[3] = "out"
          /\ t[1] > 0
          /\ t[2] + 1 < Len(grid)
          /\ GridAt(grid, t[1], t[2]).connections.down
          /\ Term(t[1], t[2] + 1, "out") \in energized
          /\ Term(t[1], t[2] + 1, "in") \notin energized
    /\ \E t \in energized : t[3] = "in" /\ t[1] > 0

-----------------------------------------------------------------------------
(* Outputs, latches and the branch stack *)

OutputTypes == {"OUT", "SET", "RST", "MOV", "MOVP"}

\* the rung the i-th instruction of the latest scan read
RungAtIndex(i) == Peek(Before(i).stack)

\* C15: OUT, SET, RST, MOV and MOVP leave the logic stack as they found it,
\* so consecutive output instructions read the same rung; one scan of
\* [LD X0, OUT Y0, OUT Y1] gives Y0 = Y1 = X0.
C15_OutputsPeek ==
    scans > 0 =>
        /\ \A i \in 1..Len(instructions) :
              instructions[i].type \in OutputTypes =>
                  /\ After(i).stack = Before(i).stack
                  /\ (i > 1 /\ instructions[i - 1].type \in OutputTypes) =>
                        RungAtIndex(i) = RungAtIndex(i - 1)
        /\ instructions = OutputRun =>
              /\ getBit(stateRef.io, Y0) = getBit(prevState.io, X0)
              /\ getBit(stateRef.io, Y1) = getBit(prevState.io, X0)

\* [LD X0, OUT Y0, OUT Y1] scanned with X0 on: both coils on
C15_Witness ==
    /\ scans > 0
    /\ instructions = OutputRun
    /\ getBit(prevState.io, X0)
    /\ getBit(stateRef.io, Y0)
    /\ getBit(stateRef.io, Y1)

Top(s) == s[Len(s)]

Front(s) == SubSeq(s, 1, Len(s) - 1)

\* C16: MPS appends a copy of the logic-stack top to mpsStack and leaves the
\* logic stack; MRD appends a copy of the mpsStack top to the logic stack and
\* leaves mpsStack; MPP moves the mpsStack top onto the logic stack; the
\* three-branch program gives Y0 = X0 and X1, Y1 = X0 and X2, Y2 = X0 and X3.
C16_BranchStack ==
    scans > 0 =>
        /\ \A i \in 1..Len(instructions) :
              LET b == Before(i)
                  a == After(i)
              IN  /\ instructions[i].type = "MPS" =>
                        /\ a.stack = b.stack
                        /\ a.mpsStack = Append(b.mpsStack, Peek(b.stack))
                  /\ (instructions[i].type = "MRD" /\ Len(b.mpsStack) > 0) =>
                        /\ a.stack = Append(b.stack, Top(b.mpsStack))
                        /\ a.mpsStack = b.mpsStack
                  /\ (instructions[i].type = "MPP" /\ Len(b.mpsStack) > 0) =>
                        /\ a.stack = Append(b.stack, Top(b.mpsStack))
                        /\ a.mpsStack = Front(b.mpsStack)
        /\ instructions = MpsProgram =>
              LET on(k) == getBit(prevState.io, k)
              IN  /\ getBit(stateRef.io, Y0) = (on(X0) /\ on(X1))
                  /\ getBit(stateRef.io, Y1) = (on(X0) /\ on(X2))
                  /\ getBit(stateRef.io, Y2) = (on(X0) /\ on(X3))

\* the three-branch program scanned with X0, X1, X3 on and X2 off
C16_Witness ==
    /\ scans > 0
    /\ instructions = MpsProgram
    /\ getBit(prevState.io, X0) /\ getBit(prevState.io, X1)
    /\ ~getBit(prevState.io, X2) /\ getBit(prevState.io, X3)
    /\ getBit(stateRef.io, Y0) /\ ~getBit(stateRef.io, Y1) /\ getBit(stateRef.io, Y2)
    /\ stateRef.mpsStack = <<>>

\* the i-th instruction of the latest scan can take the bit key down: an OUT
\* to it, or an RST of it on a true rung
Clears(i, key) ==
    /\ instructions[i].value = key
    /\ \/ instructions[i].type = "OUT"
       \/ instructions[i].type = "RST" /\ RungAtIndex(i)

\* C17: SET on a true rung sets its bit and on a false rung changes nothing;
\* a bit that is on stays on, within a scan and from scan to scan, whatever
\* the rung of the SET, as long as no OUT to it and no RST of it on a true
\* rung executes.
C17_Latch ==
    scans > 0 =>
        /\ \A i \in 1..Len(instructions) :
              instructions[i].type = "SET" =>
                  /\ After(i) = IF RungAtIndex(i)
                                THEN [Before(i) EXCEPT
                                        !.io = Put(@, instructions[i].value, TRUE)]
                                ELSE Before(i)
                  /\ RungAtIndex(i) =>
                        \A j \in i..Len(instructions) :
                            (\A k \in (i + 1)..j : ~Clears(k, instructions[i].value))
                                => getBit(After(j).io, instructions[i].value)
        /\ \A key \in DOMAIN prevState.io :
              (getBit(prevState.io, key)
                 /\ \A k \in 1..Len(instructions) : ~Clears(k, key))
                  => getBit(stateRef.io, key)

\* the self-setting latch two scans after a start with Y0 off: the SET fired
\* in the first scan, reads a false rung in the second, and Y0 is still on
C17_Witness ==
    /\ scans = 2
    /\ instructions = LatchProgram
    /\ ~Has(stateRef.data, D0)
    /\ getBit(prevState.io, Y0)
    /\ ~RungAtIndex(2)
    /\ getBit(stateRef.io, Y0)

\* C18: RST on a true rung zeroes the element its name addresses and nothing
\* else: timer value and bit for a T name; counter value, bit and edge memory
\* for a C name; the register for a D name; the bit for any other name.  On a
\* false rung RST changes nothing.
C18_ResetByNamespace ==
    scans > 0 =>
        \A i \in 1..Len(instructions) :
            instructions[i].type = "RST" =>
                LET b == Before(i)
                    n == instructions[i].value
                IN  After(i) =
                      IF ~RungAtIndex(i) THEN b
                      ELSE IF startsWith(n, "T")
                           THEN [b EXCEPT !.timers = Put(@, n, 0),
                                          !.io = Put(@, n, FALSE)]
                      ELSE IF startsWith(n, "C")
                           THEN [b EXCEPT !.counters = Put(@, n, 0),
                                          !.io = Put(@, n, FALSE),
                                          !.edgeMemory = Put(@, n, FALSE)]
                      ELSE IF startsWith(n, "D")
                           THEN [b EXCEPT !.data = Put(@, n, 0)]
                      ELSE [b EXCEPT !.io = Put(@, n, FALSE)]

\* RST C0 on a true rung, met with a count of 2 and a set edge memory
C18_Witness ==
    /\ scans > 0
    /\ \E i \in 1..Len(instructions) :
          /\ instructions[i].type = "RST"
          /\ instructions[i].value = C0
          /\ RungAtIndex(i)
          /\ NumOr0(Before(i).counters, C0) = 2
          /\ BoolOrFalse(Before(i).edgeMemory, C0)
          /\ NumOr0(stateRef.counters, C0) = 0
          /\ ~BoolOrFalse(stateRef.edgeMemory, C0)
          /\ ~getBit(stateRef.io, C0)

-----------------------------------------------------------------------------
(* Editing between runs of the simulation *)

MaxEdits == 1

MaxEditScans == 3

\* clearInterval(loopRef.current), when loopRef.current holds a handle
Cleared == IF loopRef THEN intervals - 1 ELSE intervals

\* useLadderSimulator.toggleSimulation: start or stop the interval; the
\* state of the machine is kept
toggleSimulation ==
    /\ isSimulating' = ~isSimulating
    /\ IF ~isSimulating
       THEN loopRef' = TRUE /\ intervals' = intervals + 1
       ELSE loopRef' = FALSE /\ intervals' = Cleared
    /\ UNCHANGED <<instructions, stateRef, prevState, dt, scans, held, rises,
                   grid, laidOut, energized, flowIo, rungAt, bfs, edits,
                   layouts, imports>>

\* App: the editor toolbar is rendered in edit mode only; every editor
\* operation replaces instructions, after which the grid is out of date
Edit(next) ==
    /\ ~isSimulating
    /\ edits < MaxEdits
    /\ instructions' = next
    /\ edits' = edits + 1
    /\ laidOut' = FALSE
    /\ UNCHANGED <<stateRef, isSimulating, prevState, dt, scans, held, rises,
                   grid, energized, flowIo, rungAt, bfs,
                   layouts, imports,
                   loopRef, intervals>>

\* next.splice(index, 1), index counted from 0
Splice1(insts, index) ==
    Array([i \in 1..(Len(insts) - 1) |-> IF i <= index THEN insts[i] ELSE insts[i + 1]],
          Len(insts) - 1)

\* next.splice(insertPos, 0, newInst), insertPos counted from 0
Splice0(insts, insertPos, newInst) ==
    Array([i \in 1..(Len(insts) + 1) |->
              IF i <= insertPos THEN insts[i]
              ELSE IF i = insertPos + 1 THEN newInst ELSE insts[i - 1]],
          Len(insts) + 1)

\* useLadderEditor.deleteInstruction
deleteInstruction(index) ==
    Edit(IF index >= 0 /\ index < Len(instructions)
         THEN Splice1(instructions, index) ELSE instructions)

\* useLadderEditor.insertInstruction: a fresh id above 999 and above every id
\* in use, the new instruction placed after the selected one
insertInstruction(index, type, value) ==
    LET newId == SetMax({0, 999} \cup {instructions[i].id : i \in 1..Len(instructions)}) + 1
    IN  Edit(Splice0(instructions, index + 1, Inst(newId, type, value, <<>>)))

insertSeries(index) == insertInstruction(index, "AND", <<"X", "?">>)

insertParallel(index) == insertInstruction(index, "OR", <<"Y", "?">>)

\* the indices the toolbar can hold: those of the instructions on display
Selectable == 0..(Len(instructions) - 1)

editSeries == \E index \in Selectable : insertSeries(index)

editParallel == \E index \in Selectable : insertParallel(index)

editDelete == \E index \in Selectable : deleteInstruction(index)

\* a register cleared by one rung and loaded on the rising edge of another
PulseProgram ==
    << Inst(1, "LD", X1, <<X1>>), Inst(2, "RST", D0, <<D0>>),
       Inst(3, "LD", X0, <<X0>>), Inst(4, "MOVP", K3, <<K3, D0>>) >>

InitEdit == InitWith({PulseProgram}, {EmptyState})

\* clicks on the contacts the program had when loaded, while they are on display
editClick ==
    \E key \in ContactKeys(PulseProgram) \cap ContactKeys(instructions) : toggleBit(key)

\* one tick of setInterval(runLoop, 100)
editScan == RunLoop(100, MaxEditScans)

NextEdit ==
    \/ toggleSimulation
    \/ editClick
    \/ editScan
    \/ editSeries
    \/ editParallel
    \/ editDelete

SpecEdit == InitEdit /\ [][NextEdit]_vars

-----------------------------------------------------------------------------
(* Pulse instructions *)

\* the rung the instruction with this id read in the scan rungAt records;
\* false when that scan did not hold the instruction
RungBefore(id) == Has(rungAt, id) /\ rungAt[id].rung

\* the locals of the scan a step is taking, before its i-th instruction
Entering(i) == MachineAfter(instructions, stateRef, dt', i - 1)

Leaving(i) == MachineAfter(instructions, stateRef, dt', i)

\* C19: in every scan a MOVP with two operands stores its resolved source in
\* its destination register exactly when its rung is true in this scan and
\* was false at the same instruction in the previous scan; otherwise it
\* leaves the registers alone.  A rung held true writes on the first scan
\* only, and again only after a scan with a false rung.
C19_PulseOnRisingEdge ==
    [][ scans' = scans + 1 =>
          \A i \in 1..Len(instructions) :
              (instructions[i].type = "MOVP" /\ Len(instructions[i].args) = 2) =>
                  LET inst == instructions[i]
                      b    == Entering(i)
                      now  == Peek(b.stack)
                  IN  /\ now = rungAt'[inst.id].rung
                      /\ Leaving(i).data =
                            IF now /\ ~RungBefore(inst.id)
                            THEN Put(b.data, inst.args[2], parseOperand(inst.args[1], b.data))
                            ELSE b.data ]_vars

\* the second of two scans with the rung held true: the register, cleared
\* by the other rung, is not loaded again, though the first scan loaded it
C19_Witness ==
    /\ scans >= 2
    /\ edits = 0
    /\ instructions = PulseProgram
    /\ Has(rungAt, 4)
    /\ NumOr0(prevState.data, D0) = 3
    /\ rungAt[4].rung
    /\ rungAt[4].wasRung
    /\ BoolOrFalse(prevState.edgeMemory, MovpKey(instructions[4]))
    /\ RungAtIndex(2)
    /\ NumOr0(stateRef.data, D0) = 0

\* no instruction after the i-th writes a data register
LastDataWriter(i) ==
    \A j \in (i + 1)..Len(instructions) :
        instructions[j].type \notin {"MOV", "MOVP", "RST"}

\* C20: a MOVP that read a true rung in the previous scan and, after the
\* list was edited, sits at another index with the same id, does not move
\* again in a scan in which its rung is still true: the scan returns the
\* registers as they were when the MOVP was reached.
C20_EdgeKeyedById ==
    [][ scans' = scans + 1 =>
          \A i \in 1..Len(instructions) :
              LET inst == instructions[i]
              IN  ( /\ inst.type = "MOVP"
                    /\ RungBefore(inst.id)
                    /\ rungAt[inst.id].index # i
                    /\ Peek(Entering(i).stack)
                    /\ LastDataWriter(i) )
                  => stateRef'.data = Entering(i).data ]_vars

\* after an edit the MOVP of the pulse program sits at another index than in
\* the scan before the edit, its rung was true in both scans, and the
\* register cleared by the other rung has not been loaded again
C20_Witness ==
    /\ edits > 0
    /\ scans >= 2
    /\ Has(rungAt, 4)
    /\ \E i \in 1..Len(instructions) :
          /\ instructions[i] = PulseProgram[4]
          /\ i # 4
          /\ rungAt[4].index = i
          /\ rungAt[4].rung
          /\ rungAt[4].wasIndex = 4
          /\ rungAt[4].wasRung
          /\ BoolOrFalse(prevState.edgeMemory, MovpKey(instructions[i]))
          /\ NumOr0(prevState.data, D0) = 3
          /\ NumOr0(stateRef.data, D0) = 0

-----------------------------------------------------------------------------
(* Operands *)

D1 == <<"D", "1">>

D2 == <<"D", "2">>

\* constants, registers, integers and names, well-formed and not
OperandTokens ==
    { K3, <<"K", "-", "2">>, <<"K">>, <<"K", "x">>, D0, D1, <<"3">>,
      <<"-", "2">>, <<"N">>, <<"t", "o", "S", "t", "r", "i", "n", "g">> }

\* every consumer of an operand: comparator, MOV source, timer and counter
\* preset
OperandProgram(a, b) ==
    << Inst(1, "LD_EQ", a, <<a, b>>), Inst(2, "OUT", Y0, <<Y0>>),
       Inst(3, "LDI", X0, <<X0>>), Inst(4, "MOV", a, <<a, D2>>),
       Inst(5, "OUT", T0, <<T0, b>>), Inst(6, "OUT", C0, <<C0, b>>) >>

OperandPrograms == {OperandProgram(a, b) : a \in OperandTokens, b \in OperandTokens}

OperandStates ==
    { EmptyState,
      [EmptyState EXCEPT !.data = Put(Put(EmptyMap, D0, 3), <<"N">>, 7)] }

InitOperand == InitWith(OperandPrograms, OperandStates)

NextOperand == scanOnce

SpecOperand == InitOperand /\ [][NextOperand]_vars

\* the integer an integer-looking token denotes
IntOf(tok) == IF startsWith(tok, "-") THEN 0 - DigitsVal(Tail(tok)) ELSE DigitsVal(tok)

\* the resolution rule: K and an integer is that integer; a D name is its
\* register, 0 when absent; an integer-looking token is that integer; any
\* other token is its entry of data, 0 when absent
Resolves(tok, data) ==
    IF startsWith(tok, "K")
    THEN (IF LooksNumeric(Tail(tok)) THEN IntOf(Tail(tok)) ELSE 0)
    ELSE IF startsWith(tok, "D") THEN (IF Has(data, tok) THEN data[tok] ELSE 0)
    ELSE IF LooksNumeric(tok) THEN IntOf(tok)
    ELSE IF Has(data, tok) THEN data[tok] ELSE 0

\* the operands of the latest scan resolved by the rule, for the tokens toks:
\* the comparator pushes the equality of its two resolved operands, MOV
\* stores its resolved source, and the timer and the counter compare with
\* their resolved preset
ResolvedByRule(toks) ==
    scans > 0 =>
        \A i \in 1..Len(instructions) :
            LET inst == instructions[i]
                b    == Before(i)
                a    == After(i)
            IN  /\ (inst.type = "LD_EQ" /\ {inst.args[1], inst.args[2]} \subseteq toks) =>
                      Peek(a.stack) =
                          (Resolves(inst.args[1], b.data) = Resolves(inst.args[2], b.data))
                /\ (inst.type = "MOV" /\ Peek(b.stack) /\ inst.args[1] \in toks) =>
                      /\ IsNumber(a.data[inst.args[2]])
                      /\ a.data[inst.args[2]] = Resolves(inst.args[1], b.data)
                /\ (inst.type = "OUT" /\ inst.value = T0 /\ Peek(b.stack)
                        /\ inst.args[2] \in toks) =>
                      getBit(a.io, T0) =
                          (a.timers[T0] >= 100 * Resolves(inst.args[2], b.data))
                /\ (inst.type = "OUT" /\ inst.value = C0 /\ Peek(b.stack)
                        /\ ~BoolOrFalse(b.edgeMemory, C0) /\ inst.args[2] \in toks) =>
                      getBit(a.io, C0) =
                          (getBit(b.io, C0) \/ a.counters[C0] >= Resolves(inst.args[2], b.data))

\* C21: operands of comparators, of MOV and of timer and counter presets
\* resolve by the rule: a K constant to its integer, a D register and any
\* other name to its entry of data or 0 when absent, an integer-looking
\* token to that integer; an unknown name always resolves to 0.
C21_OperandResolution == ResolvedByRule(OperandTokens)

\* the rule for every token that Object.prototype does not answer
C21_OwnNamesOnly == ResolvedByRule(OperandTokens \ ProtoKeys)

\* a scan that resolved a constant, an absent register and a present name
C21_Witness ==
    /\ scans > 0
    /\ instructions = OperandProgram(<<"N">>, D1)
    /\ NumOr0(prevState.data, <<"N">>) = 7
    /\ NumOr0(stateRef.data, D2) = 7
    /\ ~getBit(stateRef.io, Y0)

-----------------------------------------------------------------------------
(* Names shared between the maps *)

MaxNameLen == 2

SharedNames == {T0, C0, D0}

\* every instruction that writes under a name, on each of the shared names
NameAlphabet ==
    {Tmpl("LD", X0, <<X0>>), Tmpl("LDI", X0, <<X0>>)}
    \cup {Tmpl("OUT", n, <<n, K1>>) : n \in SharedNames}
    \cup {Tmpl("SET", n, <<n>>) : n \in SharedNames}
    \cup {Tmpl("RST", n, <<n>>) : n \in SharedNames}
    \cup {Tmpl("MOV", K3, <<K3, n>>) : n \in SharedNames}
    \cup {Tmpl("MOVP", K3, <<K3, n>>) : n \in SharedNames}

NamePrograms == {MkProg(ts) : ts \in SeqsUpTo(NameAlphabet, MaxNameLen)}

\* the empty state, and a state where T0 and C0 are keys of data as well as
\* of their own maps
NameStates ==
    { EmptyState,
      [io |-> Put(EmptyMap, X0, TRUE),
       data |-> Put(Put(Put(EmptyMap, T0, 5), C0, 6), D0, 7),
       timers |-> Put(EmptyMap, T0, 100),
       counters |-> Put(EmptyMap, C0, 2),
       edgeMemory |-> EmptyMap,
       mpsStack |-> <<>>] }

InitNames == InitWith(NamePrograms, NameStates)

NextNames == scanOnce

SpecNames == InitNames /\ [][NextNames]_vars

\* the maps f and g agree except possibly at key
SameExceptAt(f, g, key) ==
    /\ DOMAIN f \ {key} = DOMAIN g \ {key}
    /\ \A k \in DOMAIN f \ {key} : f[k] = g[k]

\* C22: keys of distinct purposes never collide: in every scan MOV and MOVP
\* leave io, timers and counters as they were, OUT and SET leave data as it
\* was, RST on a timer or counter name leaves data as it was and RST on a
\* register leaves timers and counters as they were; the edgeMemory key of a
\* counter differs from that of every MOVP, and each leaves the other's
\* entry alone.
C22_NoCollision ==
    scans > 0 =>
        \A i \in 1..Len(instructions) :
            LET inst == instructions[i]
                b    == Before(i)
                a    == After(i)
            IN  /\ inst.type \in {"MOV", "MOVP"} =>
                      /\ a.io = b.io /\ a.timers = b.timers /\ a.counters = b.counters
                      /\ SameExceptAt(a.data, b.data, inst.args[2])
                      /\ SameExceptAt(a.edgeMemory, b.edgeMemory, MovpKey(inst))
                      /\ inst.type = "MOV" => a.edgeMemory = b.edgeMemory
                /\ inst.type \in {"OUT", "SET"} => a.data = b.data
                /\ inst.type = "RST" =>
                      IF startsWith(inst.value, "D")
                      THEN a.timers = b.timers /\ a.counters = b.counters /\ a.io = b.io
                      ELSE a.data = b.data
                /\ (inst.type = "OUT" /\ startsWith(inst.value, "C")) =>
                      /\ SameExceptAt(a.edgeMemory, b.edgeMemory, inst.value)
                      /\ a.timers = b.timers
                      /\ \A j \in 1..Len(instructions) :
                             instructions[j].type = "MOVP" =>
                                 MovpKey(instructions[j]) # inst.value
                /\ (inst.type = "OUT" /\ startsWith(inst.value, "T")) =>
                      /\ a.counters = b.counters
                      /\ a.edgeMemory = b.edgeMemory

\* a scan that moved a value to the name T0 while the timer T0 kept its time
C22_Witness ==
    /\ scans > 0
    /\ \E i \in 1..Len(instructions) :
          /\ instructions[i].type = "MOV"
          /\ instructions[i].args[2] = T0
          /\ Peek(Before(i).stack)
          /\ NumOr0(Before(i).data, T0) = 5
          /\ NumOr0(After(i).data, T0) = 3
          /\ NumOr0(After(i).timers, T0) = 100

-----------------------------------------------------------------------------
(* The time base *)

\* the program has an OUT to a name of the timer namespace
HasTimerOut(insts) ==
    \E i \in 1..Len(insts) : insts[i].type = "OUT" /\ startsWith(insts[i].value, "T")

\* C23: dt is used only for timer accumulation: the state after a scan is the
\* function runScanCycle of the program, the state before and dt, and for a
\* program without an OUT to a timer name every dt gives that same state.
C23_DtOnlyTimers ==
    scans > 0 =>
        /\ stateRef = runScanCycle(instructions, prevState, dt)
        /\ ~HasTimerOut(instructions) =>
              \A d \in DtSet : runScanCycle(instructions, prevState, d) = stateRef

\* a scan of 200 ms over a program without timer that counted a rising edge
C23_Witness ==
    /\ scans > 0
    /\ dt = 200
    /\ ~HasTimerOut(instructions)
    /\ \E i \in 1..Len(instructions) :
          /\ instructions[i].type = "OUT"
          /\ instructions[i].value = C0
          /\ NumOr0(After(i).counters, C0) = NumOr0(Before(i).counters, C0) + 1

-----------------------------------------------------------------------------
(* Layout after layout *)

MaxLoads == 2

\* a branch without a rung before it
BranchOnly == << Inst(1, "OR", X1, <<X1>>), Inst(2, "MRD", <<>>, <<>>) >>

\* what the host loads: the test cases, imports and the empty program
LoadPrograms ==
    {<<>>, SingleLD, TEST_CASE_SELF_HOLDING, TEST_CASE_NESTED_ORB, MpsProgram, BranchOnly}

\* App.loadCase and App.handleClear: stop the simulation, replace the
\* program, reset the simulation state
loadCase ==
    /\ laidOut
    /\ Len(layouts) <= MaxLoads
    /\ \E data \in LoadPrograms : instructions' = data
    /\ isSimulating' = FALSE
    /\ loopRef' = FALSE
    /\ intervals' = Cleared
    /\ stateRef' = EmptyState
    /\ laidOut' = FALSE
    /\ energized' = {}
    /\ flowIo' = Null
    /\ UNCHANGED <<prevState, dt, scans, held, rises, grid, rungAt, bfs, edits,
                   layouts, imports>>

InitLoad == InitWith(LoadPrograms, {EmptyState})

NextLoad == updateGrid \/ loadCase

SpecLoad == InitLoad /\ [][NextLoad]_vars

-----------------------------------------------------------------------------
(* Mnemonic text *)

\* A text is modelled after text.split(/\r?\n/) and, per line, trim() and
\* split(/\s+/): a sequence of lines, each the sequence of its tokens; a
\* blank line is the empty sequence.

MaxTokens == 3

MaxLines == 2

\* KNOWN_KEYWORDS, each with the string it is as an InstructionType
KeywordTable ==
    << <<<<"L", "D">>, "LD">>,
       <<<<"L", "D", "I">>, "LDI">>,
       <<<<"A", "N", "D">>, "AND">>,
       <<<<"A", "N", "I">>, "ANI">>,
       <<<<"O", "R">>, "OR">>,
       <<<<"O", "R", "I">>, "ORI">>,
       <<<<"O", "U", "T">>, "OUT">>,
       <<<<"O", "R", "B">>, "ORB">>,
       <<<<"A", "N", "B">>, "ANB">>,
       <<<<"M", "O", "V">>, "MOV">>,
       <<<<"R", "S", "T">>, "RST">>,
       <<<<"L", "D", "=">>, "LD=">>,
       <<<<"A", "N", "D", "=">>, "AND=">>,
       <<<<"O", "R", "=">>, "OR=">>,
       <<<<"L", "D", "_", "E", "Q">>, "LD_EQ">>,
       <<<<"A", "N", "D", "_", "E", "Q">>, "AND_EQ">>,
       <<<<"O", "R", "_", "E", "Q">>, "OR_EQ">>,
       <<<<"M", "P", "S">>, "MPS">>,
       <<<<"M", "R", "D">>, "MRD">>,
       <<<<"M", "P", "P">>, "MPP">>,
       <<<<"M", "O", "V", "P">>, "MOVP">>,
       <<<<"S", "E", "T">>, "SET">> >>

KNOWN_KEYWORDS == {KeywordTable[i][1] : i \in DOMAIN KeywordTable}

LowerCase == <<"a", "b", "c", "d", "e", "f", "g", "h", "i", "j", "k", "l", "m", "n", "o", "p", "q", "r", "s", "t", "u", "v", "w", "x", "y", "z">>

UpperCase == <<"A", "B", "C", "D", "E", "F", "G", "H", "I", "J", "K", "L", "M", "N", "O", "P", "Q", "R", "S", "T", "U", "V", "W", "X", "Y", "Z">>

toUpperChar(ch) ==
    IF \E i \in DOMAIN LowerCase : LowerCase[i] = ch
    THEN UpperCase[CHOOSE i \in DOMAIN LowerCase : LowerCase[i] = ch]
    ELSE ch

toUpperCase(raw) == Array([i \in 1..Len(raw) |-> toUpperChar(raw[i])], Len(raw))

\* String.prototype.startsWith with a prefix of any length
startsWithText(str, prefix) ==
    Len(str) >= Len(prefix) /\ SubSeq(str, 1, Len(prefix)) = prefix

Equals == <<"=">>

Slashes == <<"/", "/">>

\* Null when raw is no keyword
normalizeType(raw) ==
    LET upper == toUpperCase(raw)
    IN  IF upper \in {<<"L", "D", "=">>, <<"L", "D", "_", "E", "Q">>} THEN Some("LD_EQ")
        ELSE IF upper \in {<<"A", "N", "D", "=">>, <<"A", "N", "D", "_", "E", "Q">>} THEN Some("AND_EQ")
        ELSE IF upper \in {<<"O", "R", "=">>, <<"O", "R", "_", "E", "Q">>} THEN Some("OR_EQ")
        ELSE IF upper \in KNOWN_KEYWORDS
             THEN Some(KeywordTable[CHOOSE i \in DOMAIN KeywordTable :
                                        KeywordTable[i][1] = upper][2])
        ELSE Null

\* line.startsWith('//') || line.startsWith(';') || line.startsWith('*')
\* on the trimmed line, which begins with its first token
SkippedLine(tokens) ==
    \/ Len(tokens) = 0
    \/ startsWithText(tokens[1], Slashes)
    \/ startsWith(tokens[1], ";")
    \/ startsWith(tokens[1], "*")

\* the body of the heuristic scan for the token at position t
ScanToken(tokens, t) ==
    LET up    == toUpperCase(tokens[t])
        token == IF /\ up \in {<<"L", "D">>, <<"A", "N", "D">>, <<"O", "R">>}
                    /\ t + 1 <= Len(tokens)
                    /\ tokens[t + 1] = Equals
                 THEN up \o Equals ELSE up
    IN  normalizeType(token)

RECURSIVE FindType(_, _)
\* the heuristic scan from position t: foundType and typeIndex
FindType(tokens, t) ==
    IF t > Len(tokens) THEN [foundType |-> Null, typeIndex |-> 0]
    ELSE IF ScanToken(tokens, t) # Null
         THEN [foundType |-> ScanToken(tokens, t), typeIndex |-> t]
    ELSE FindType(tokens, t + 1)

RECURSIVE CollectArgs(_, _)
\* the tokens from position k up to the first that opens a comment
CollectArgs(tokens, k) ==
    IF k > Len(tokens) THEN <<>>
    ELSE IF startsWithText(tokens[k], Slashes) \/ startsWith(tokens[k], ";") THEN <<>>
    ELSE <<tokens[k]>> \o CollectArgs(tokens, k + 1)

\* variant: the args run to the end of the line, comments included
ParseLine_allTokens(tokens, id) ==
    LET f        == FindType(tokens, 1)
        first    == f.typeIndex + 1
        eq       == first <= Len(tokens) /\ tokens[first] = Equals
        found    == f.foundType[1]
        type     == IF eq /\ found = "LD" THEN "LD_EQ"
                    ELSE IF eq /\ found = "AND" THEN "AND_EQ"
                    ELSE IF eq /\ found = "OR" THEN "OR_EQ"
                    ELSE found
        args     == SubSeq(tokens, IF eq THEN first + 1 ELSE first, Len(tokens))
        value    == IF Len(args) > 0 THEN args[1] ELSE <<>>
    IN  Inst(id, type, value, args)

\* the instruction of a line whose scan found a type
ParseLine(tokens, id) ==
    LET f        == FindType(tokens, 1)
        first    == f.typeIndex + 1
        eq       == first <= Len(tokens) /\ tokens[first] = Equals
        found    == f.foundType[1]
        type     == IF eq /\ found = "LD" THEN "LD_EQ"
                    ELSE IF eq /\ found = "AND" THEN "AND_EQ"
                    ELSE IF eq /\ found = "OR" THEN "OR_EQ"
                    ELSE found
        args     == CollectArgs(tokens, IF eq THEN first + 1 ELSE first)
        value    == IF Len(args) > 0 THEN args[1] ELSE <<>>
    IN  Inst(id, type, value, args)

RECURSIVE ParseLines(_, _, _, _)
\* the loop over lines from line i on, with the instructions and idCounter
ParseLines(lines, i, instrs, idCounter) ==
    IF i > Len(lines) THEN instrs
    ELSE IF SkippedLine(lines[i]) \/ FindType(lines[i], 1).foundType = Null
         THEN ParseLines(lines, i + 1, instrs, idCounter)
    ELSE ParseLines(lines, i + 1, Append(instrs, ParseLine(lines[i], idCounter)),
                    idCounter + 1)

parseMnemonic(text) == ParseLines(text, 1, <<>>, 1)
\* tokens of a line: opcodes in either case, a joined comparator, the
\* separate '=', an operand, a line number and the three comment openers
TokenAlphabet ==
    { <<"L", "D">>, <<"o", "r">>, <<"O", "U", "T">>, <<"L", "D", "=">>, Equals, X0, <<"4">>,
      Slashes, <<";", "c">>, <<"*", "n">> }

LinesUpTo == SeqsUpTo(TokenAlphabet, MaxTokens)

\* lines of the demo text and of the forms the parser names
SampleLines ==
    { <<>>,
      <<Slashes, <<"L", "D">>, X0>>,
      <<<<"L", "D">>, X0>>,
      <<<<"4">>, <<"o", "r">>, Equals, D0, K1, <<";", "c">>>>,
      <<<<"[", "N", "o", "t", "e", "]">>>>,
      <<<<"O", "u", "t">>, Y0, Slashes, <<"c", "o", "i", "l">>>> }

Texts == {<<line>> : line \in LinesUpTo} \cup SeqsUpTo(SampleLines, MaxLines)

\* MnemonicImporter.handleParse: parse the text and, unless the result is
\* empty, hand it to App.loadCase
importText ==
    /\ Len(imports) = 0
    /\ \E text \in Texts :
          LET result == parseMnemonic(text)
          IN  /\ imports' = Append(imports, [text |-> text, result |-> result])
              /\ IF Len(result) = 0
                 THEN UNCHANGED <<instructions, stateRef, isSimulating, laidOut,
                                  energized, flowIo, loopRef, intervals>>
                 ELSE /\ instructions' = result
                      /\ isSimulating' = FALSE
                      /\ loopRef' = FALSE
                      /\ intervals' = Cleared
                      /\ stateRef' = EmptyState
                      /\ laidOut' = FALSE
                      /\ energized' = {}
                      /\ flowIo' = Null
    /\ UNCHANGED <<prevState, dt, scans, held, rises, grid, rungAt, bfs, edits,
                   layouts>>

InitImport == InitWith({<<>>}, {EmptyState})

NextImport == importText \/ updateGrid

SpecImport == InitImport /\ [][NextImport]_vars

\* the token is a known opcode, in either case
IsOpcode(token) == toUpperCase(token) \in KNOWN_KEYWORDS

\* a non-empty, non-comment line that contains a known opcode
HasInstruction(tokens) ==
    ~SkippedLine(tokens) /\ \E t \in 1..Len(tokens) : IsOpcode(tokens[t])

\* the position of the first token that is a known opcode
Anchor(tokens) ==
    CHOOSE t \in 1..Len(tokens) :
        IsOpcode(tokens[t]) /\ \A u \in 1..(t - 1) : ~IsOpcode(tokens[u])

EqForm(type) ==
    IF type = "LD" THEN "LD_EQ" ELSE IF type = "AND" THEN "AND_EQ"
    ELSE IF type = "OR" THEN "OR_EQ" ELSE type

\* the tokens before the first that opens an inline comment
BeforeComment(tokens) ==
    LET opens == {k \in 1..Len(tokens) :
                     startsWithText(tokens[k], Slashes) \/ startsWith(tokens[k], ";")}
    IN  IF opens = {} THEN tokens ELSE SubSeq(tokens, 1, SetMin(opens) - 1)

\* the instruction of a line: its anchor's type, in the comparator form when
\* a separate '=' follows LD, AND or OR; the tokens after the anchor, and
\* after that '=', as args; the first of them as value
LineInstruction(tokens, id) ==
    LET t     == Anchor(tokens)
        base  == normalizeType(tokens[t])[1]
        split == /\ base \in {"LD", "AND", "OR"}
                 /\ t + 1 <= Len(tokens) /\ tokens[t + 1] = Equals
        args  == SubSeq(tokens, IF split THEN t + 2 ELSE t + 1, Len(tokens))
    IN  Inst(id, IF split THEN EqForm(base) ELSE base,
             IF Len(args) > 0 THEN args[1] ELSE <<>>, args)

\* the same with a '=' directly after any anchor left out of the args, and
\* the args ending before the first token that begins with // or ;
LineInstructionCut(tokens, id) ==
    LET t     == Anchor(tokens)
        base  == normalizeType(tokens[t])[1]
        eq    == t + 1 <= Len(tokens) /\ tokens[t + 1] = Equals
        args  == BeforeComment(SubSeq(tokens, IF eq THEN t + 2 ELSE t + 1, Len(tokens)))
    IN  Inst(id, IF eq THEN EqForm(base) ELSE base,
             IF Len(args) > 0 THEN args[1] ELSE <<>>, args)

InstructionLines(text) == SelectSeq(text, HasInstruction)

\* C25: the lexer emits one instruction per non-empty, non-comment line that
\* contains a known opcode, in line order with ids 1..n; the first token
\* that is a known opcode in either case anchors it, LD/AND/OR followed by a
\* separate '=' becomes the _EQ form with the '=' no operand, the remaining
\* tokens become args and value is args[0], or empty without args.
C25_Lexer ==
    \A k \in 1..Len(imports) :
        LET lines == InstructionLines(imports[k].text)
        IN  imports[k].result =
                Array([i \in 1..Len(lines) |-> LineInstruction(lines[i], i)], Len(lines))

\* C25, amended: as above, with the args ending before the first remaining
\* token that begins with // or ; and with a '=' directly after the anchor
\* never an operand, whatever the opcode.
C25_LexerCut ==
    \A k \in 1..Len(imports) :
        LET lines == InstructionLines(imports[k].text)
        IN  imports[k].result =
                Array([i \in 1..Len(lines) |-> LineInstructionCut(lines[i], i)], Len(lines))

\* an import of a comment line and of a numbered line with a split
\* comparator and an inline comment
C25_Witness ==
    /\ Len(imports) = 1
    /\ Len(imports[1].text) = 2
    /\ SkippedLine(imports[1].text[1])
    /\ Len(imports[1].text[2]) = 6
    /\ instructions = <<Inst(1, "OR_EQ", D0, <<D0, K1>>)>>

-----------------------------------------------------------------------------
(* Parallel branches *)

\* the locals of the layout of instructions before and after its i-th
\* instruction
LayoutBefore(i) == LayoutAfter(instructions, i - 1)

LayoutAt(i) == LayoutAfter(instructions, i)

\* the cell pushed last
LastCell(c) == c.cells[Len(c.cells)]

\* the rows that hold a cell
UsedRows(c) == {c.cells[k].y : k \in 1..Len(c.cells)}

\* a parallel instruction opened a new row below all used rows, added it to
\* the active rows and was placed on it at the block's start column
ParallelPlaced(i) ==
    LET b    == LayoutBefore(i)
        a    == LayoutAt(i)
        newY == b.maxYUsed + 1
    IN  /\ \A y \in UsedRows(b) : y < newY
        /\ a.maxYUsed = newY
        /\ a.currentBlock.activeRows = SetAdd(b.currentBlock.activeRows, newY)
        /\ Len(a.cells) > Len(b.cells)
        /\ LastCell(a).x = b.currentBlock.startX
        /\ LastCell(a).y = newY
        /\ LastCell(a).instruction = Some(instructions[i])
        /\ LastCell(a).sourceIndex = Some(i - 1)

\* some column ties the branch-source row to the new row: a down-connection
\* on the first and an up-connection on the second
ParallelTied(i) ==
    LET b == LayoutBefore(i)
        a == LayoutAt(i)
    IN  \E k \in 1..Len(a.cells) : \E n \in 1..Len(a.cells) :
            /\ a.cells[k].y = b.currentBlock.minY
            /\ a.cells[k].connections.down
            /\ a.cells[n].y = b.maxYUsed + 1
            /\ a.cells[n].connections.up
            /\ a.cells[n].x = a.cells[k].x

\* C26: on a parallel instruction the layout opens a new row below all used
\* rows and adds it to the active rows of the current block, places the
\* instruction at the block's start column on that row, and draws a vertical
\* tie, down on the branch-source row and up on the new row, from the
\* block's branch column.
C26_ParallelBranch ==
    laidOut =>
        \A i \in 1..Len(instructions) :
            isParallel(instructions[i]) => ParallelPlaced(i) /\ ParallelTied(i)

\* what the layout does on a parallel instruction: row and placement as
\* above, every block starting at column 0, and the cells it found untouched
C26_NoTieDrawn ==
    laidOut =>
        \A i \in 1..Len(instructions) :
            isParallel(instructions[i]) =>
                /\ ParallelPlaced(i)
                /\ LayoutBefore(i).currentBlock.startX = 0
                /\ Len(LayoutAt(i).cells) = Len(LayoutBefore(i).cells) + 1
                /\ SubSeq(LayoutAt(i).cells, 1, Len(LayoutBefore(i).cells))
                       = LayoutBefore(i).cells

-----------------------------------------------------------------------------
(* Series convergence *)

\* the cell cells.find returns at (x, y) has the connection, for the
\* connections down, up and right
HasDown(c, x, y) ==
    FindIdx(c.cells, x, y) # 0 /\ c.cells[FindIdx(c.cells, x, y)].connections.down

HasUp(c, x, y) ==
    FindIdx(c.cells, x, y) # 0 /\ c.cells[FindIdx(c.cells, x, y)].connections.up

HasRight(c, x, y) ==
    FindIdx(c.cells, x, y) # 0 /\ c.cells[FindIdx(c.cells, x, y)].connections.right

\* the largest column of row y that holds a cell, -1 for a row without cells
RightmostX(c, y) ==
    SetMax({0 - 1} \cup {c.cells[k].x : k \in {n \in 1..Len(c.cells) : c.cells[n].y = y}})

\* a series instruction meets a block of more than one active row
Converges(i) ==
    isSeries(instructions[i]) /\ Len(LayoutBefore(i).currentBlock.activeRows) > 1

\* the convergence wiring and the placement after it
Converged(i) ==
    LET b      == LayoutBefore(i)
        a      == LayoutAt(i)
        cb     == b.currentBlock
        rows   == Range(cb.activeRows)
        mergeX == cb.endX - 1
    IN  /\ \A y \in rows : HasRight(a, RightmostX(b, y), y)
        /\ \A y \in SetMin(rows)..(SetMax(rows) - 1) :
              HasDown(a, mergeX, y) /\ HasUp(a, mergeX, y + 1)
        /\ a.currentBlock.activeRows = <<cb.minY>>
        /\ LastCell(a).instruction = Some(instructions[i])
        /\ LastCell(a).x = cb.endX
        /\ LastCell(a).y = cb.minY

\* C27: when a series instruction meets a block of more than one active row,
\* the rightmost cell of every active row gets a right-connection, the rows
\* from the lowest to the highest active row are tied by an unbroken chain
\* of down/up connections at the merge column, the active rows collapse to
\* the single top row and the instruction is placed on it at the block's
\* rightmost column.
C27_SeriesConvergence ==
    laidOut => \A i \in 1..Len(instructions) : Converges(i) => Converged(i)

-----------------------------------------------------------------------------
(* Block merges *)

\* a block operator that finds a block to merge with
Merges(i, type) ==
    instructions[i].type = type /\ LayoutBefore(i).blockStack # <<>>

\* the cell cells.find returns at (x, y) is a wire: no instruction, left and
\* right connected
IsWire(c, x, y) ==
    /\ FindIdx(c.cells, x, y) # 0
    /\ LET cell == c.cells[FindIdx(c.cells, x, y)]
       IN  /\ cell.instruction = Null
           /\ cell.connections.left
           /\ cell.connections.right

\* the cells the instruction found are still there, each at its place and
\* with its instruction; connections may have been added
CellsKept(b, a) ==
    /\ Len(a.cells) >= Len(b.cells)
    /\ \A k \in 1..Len(b.cells) :
          /\ a.cells[k].x = b.cells[k].x
          /\ a.cells[k].y = b.cells[k].y
          /\ a.cells[k].instruction = b.cells[k].instruction
          /\ a.cells[k].sourceIndex = b.cells[k].sourceIndex

\* no cell carries the instruction of this index
NoCellFor(a, i) == \A k \in 1..Len(a.cells) : a.cells[k].sourceIndex # Some(i - 1)

\* C28: ORB with a non-empty block stack pops the previous block, pads every
\* active row of both blocks with wire cells, left and right connected, up
\* to column max(prev.endX, cur.endX) - 1, gives the cell at that column a
\* right-connection, and makes the merged block have the union of the
\* active rows, the larger endX and the smaller minY; it emits no cell for
\* the ORB itself.
C28_OrbMerge ==
    laidOut =>
        \A i \in 1..Len(instructions) :
            Merges(i, "ORB") =>
                LET b      == LayoutBefore(i)
                    a      == LayoutAt(i)
                    prev   == Top(b.blockStack)
                    cur    == b.currentBlock
                    target == Max2(prev.endX, cur.endX)
                    rows   == Range(prev.activeRows) \cup Range(cur.activeRows)
                IN  /\ a.blockStack = Front(b.blockStack)
                    /\ \A y \in rows :
                          /\ \A x \in (RightmostX(b, y) + 1)..(target - 1) : IsWire(a, x, y)
                          /\ HasRight(a, target - 1, y)
                    /\ Range(a.currentBlock.activeRows) = rows
                    /\ a.currentBlock.endX = target
                    /\ a.currentBlock.minY = Min2(prev.minY, cur.minY)
                    /\ CellsKept(b, a)
                    /\ NoCellFor(a, i)
                    /\ a.maxYUsed = b.maxYUsed /\ a.mpsStack = b.mpsStack

\* an ORB that padded the shorter of two blocks with a wire
C28_Witness ==
    /\ laidOut
    /\ instructions = UnevenBlocks
    /\ LayoutBefore(4).blockStack # <<>>
    /\ FindIdx(LayoutBefore(4).cells, 1, 1) = 0
    /\ IsWire(LayoutAt(4), 1, 1)
    /\ GridAt(grid, 1, 1).instruction = Null
    /\ GridAt(grid, 1, 1).connections.right
\* the cell is the cell before it, moved right by offset
Shifted(after, before, offset) == after = [before EXCEPT !.x = @ + offset]

\* C29: ANB with a non-empty block stack pops the previous block and shifts
\* right by the previous block's width exactly the cells on the rows of the
\* current block, the rows from its top row minY down, leaving every other
\* cell as it was; the resulting block is prev.endX + cur.endX wide and has
\* the current block's active rows; it emits no cell for the ANB.
C29_AnbMerge ==
    laidOut =>
        \A i \in 1..Len(instructions) :
            Merges(i, "ANB") =>
                LET b    == LayoutBefore(i)
                    a    == LayoutAt(i)
                    prev == Top(b.blockStack)
                    cur  == b.currentBlock
                IN  /\ a.blockStack = Front(b.blockStack)
                    /\ Len(a.cells) = Len(b.cells)
                    /\ \A k \in 1..Len(b.cells) :
                          IF b.cells[k].y >= cur.minY
                          THEN Shifted(a.cells[k], b.cells[k], prev.endX - prev.startX)
                          ELSE a.cells[k] = b.cells[k]
                    /\ a.currentBlock.endX - a.currentBlock.startX = prev.endX + cur.endX
                    /\ a.currentBlock.activeRows = cur.activeRows
                    /\ NoCellFor(a, i)
                    /\ a.maxYUsed = b.maxYUsed /\ a.mpsStack = b.mpsStack

\* an ANB that moved a block of two rows past a rung of two contacts
C29_Witness ==
    /\ laidOut
    /\ instructions = SeriesBlocks
    /\ LayoutBefore(5).blockStack # <<>>
    /\ LayoutBefore(5).cells[3].x = 0 /\ LayoutAt(5).cells[3].x = 2
    /\ LayoutBefore(5).cells[4].x = 0 /\ LayoutAt(5).cells[4].x = 2
    /\ LayoutAt(5).cells[1] = LayoutBefore(5).cells[1]
    /\ LayoutAt(5).currentBlock.endX = 3
    /\ GridAt(grid, 2, 2).instruction = Some(instructions[4])

-----------------------------------------------------------------------------
(* Branches off the vertical bus *)

\* MRD or MPP that finds a branch point
Branches(i) ==
    instructions[i].type \in {"MRD", "MPP"} /\ LayoutBefore(i).mpsStack # <<>>

\* C30: MRD with a non-empty anchor stack opens a new row below all used
\* rows, draws an unbroken chain of down/up connections in the anchor's
\* column from the anchor's row to the new row, emits a junction cell at
\* (anchor column, new row) and sets the block's cursor and top row so that
\* the next series instruction is placed right of the junction on the new
\* row; MPP does the same and removes the anchor, MRD leaves the anchor
\* stack as it was.
C30_BranchRow ==
    laidOut =>
        \A i \in 1..Len(instructions) :
            Branches(i) =>
                LET b     == LayoutBefore(i)
                    a     == LayoutAt(i)
                    point == Top(b.mpsStack)
                    newY  == b.maxYUsed + 1
                IN  /\ \A y \in UsedRows(b) : y < newY
                    /\ a.maxYUsed = newY
                    /\ \A y \in point.y..(newY - 1) :
                          HasDown(a, point.x, y) /\ HasUp(a, point.x, y + 1)
                    /\ LastCell(a).x = point.x /\ LastCell(a).y = newY
                    /\ LastCell(a).instruction = Some(instructions[i])
                    /\ a.currentBlock.endX = point.x + 1
                    /\ a.currentBlock.minY = newY
                    /\ (i < Len(instructions) /\ isSeries(instructions[i + 1])) =>
                          /\ LastCell(LayoutAt(i + 1)).instruction = Some(instructions[i + 1])
                          /\ LastCell(LayoutAt(i + 1)).x = point.x + 1
                          /\ LastCell(LayoutAt(i + 1)).y = newY
                    /\ a.mpsStack = IF instructions[i].type = "MPP"
                                    THEN Front(b.mpsStack) ELSE b.mpsStack

\* an MRD off a branch point, followed by a series instruction on its row,
\* with the branch point still on the stack
C30_Witness ==
    /\ laidOut
    /\ Len(instructions) = 3
    /\ instructions[2].type = "MRD"
    /\ isSeries(instructions[3])
    /\ Branches(2)
    /\ LayoutAt(2).mpsStack = LayoutBefore(2).mpsStack
    /\ HasDown(LayoutAt(2), 0, 0) /\ HasUp(LayoutAt(2), 0, 1)
    /\ GridAt(grid, 1, 1).instruction = Some(instructions[3])

-----------------------------------------------------------------------------
(* New blocks *)

\* C31: every start instruction other than the one at index 0 pushes a copy
\* of the current block onto the block stack and opens a new block whose
\* single row is fresh: greater than the y of every cell emitted so far.
C31_FreshBlockRow ==
    laidOut =>
        \A i \in 2..Len(instructions) :
            isStart(instructions[i]) =>
                LET b    == LayoutBefore(i)
                    a    == LayoutAt(i)
                    newY == a.currentBlock.minY
                IN  /\ a.blockStack = Append(b.blockStack, b.currentBlock)
                    /\ a.currentBlock.activeRows = <<newY>>
                    /\ \A y \in UsedRows(b) : y < newY
                    /\ LastCell(a).instruction = Some(instructions[i])
                    /\ LastCell(a).y = newY

\* a start after a branch point's row: its block lies below both used rows
C31_Witness ==
    /\ laidOut
    /\ Len(instructions) = 3
    /\ instructions[1].type = "LD"
    /\ instructions[2].type = "OR"
    /\ instructions[3].type = "LD"
    /\ UsedRows(LayoutBefore(3)) = {0, 1}
    /\ LayoutAt(3).currentBlock.activeRows = <<2>>
    /\ Len(LayoutAt(3).blockStack) = 1
    /\ GridAt(grid, 0, 2).instruction = Some(instructions[3])

-----------------------------------------------------------------------------
(* Single rungs: layout and power flow against the scan *)

MaxContacts == 2

RungStarts == {Tmpl("LD", X0, <<X0>>), Tmpl("LDI", X0, <<X0>>)}

RungContacts ==
    { Tmpl("AND", X1, <<X1>>), Tmpl("ANI", X1, <<X1>>),
      Tmpl("OR", X2, <<X2>>), Tmpl("ORI", X2, <<X2>>) }

\* one start, contacts in any order, one OUT to a plain bit
RungPrograms ==
    { MkProg(<<st>> \o cs \o <<Tmpl("OUT", Y0, <<Y0>>)>>) :
          st \in RungStarts, cs \in SeqsUpTo(RungContacts, MaxContacts) }

InitRung == InitWith(RungPrograms, IoStates({X0, X1, X2}))

NextRung == updateGrid \/ energize \/ scanOnce

SpecRung == InitRung /\ [][NextRung]_vars

\* the cell of the grid that shows the last instruction, the OUT
OutCell == CHOOSE cell \in CellsOf(grid, Len(instructions) - 1) : TRUE

\* the grid is laid out, a scan has run and the power flow is that of the
\* io the scan left
RungShown == laidOut /\ scans > 0 /\ flowIo = Some(stateRef.io)

\* no OR or ORI comes after an AND or ANI
BranchesFirst ==
    \A i \in 1..Len(instructions) : \A j \in 1..Len(instructions) :
        (i < j /\ instructions[i].type \in {"AND", "ANI"})
            => instructions[j].type \notin {"OR", "ORI"}

\* C32: layout followed by energize agrees with the interpreter on single
\* rungs: for one LD/LDI, any sequence of AND/ANI/OR/ORI, one OUT to a
\* plain bit and every io, the "in" terminal of the OUT cell is energized
\* if and only if the scan finds the rung true at that OUT.
C32_RungAgrees ==
    RungShown =>
        (Term(OutCell.x, OutCell.y, "in") \in energized <=> getBit(stateRef.io, Y0))

\* the same for the rungs whose branches all come before the series contacts
C32_AgreesBranchesFirst ==
    (RungShown /\ BranchesFirst) =>
        (Term(OutCell.x, OutCell.y, "in") \in energized <=> getBit(stateRef.io, Y0))

-----------------------------------------------------------------------------
(* One cell per instruction *)

\* the grid shows the i-th instruction in exactly one cell, which holds it
ShownOnce(i) ==
    /\ Cardinality(CellsOf(grid, i - 1)) = 1
    /\ \A cell \in CellsOf(grid, i - 1) : cell.instruction = Some(instructions[i])

\* no two emitted cells share a position
NoOverlap ==
    \A k \in 1..Len(Emitted) : \A n \in 1..Len(Emitted) :
        (Emitted[k].x = Emitted[n].x /\ Emitted[k].y = Emitted[n].y) => k = n

\* C33: in the grid returned by layout each instruction other than ORB and
\* ANB appears in exactly one cell, whose sourceIndex is its index and whose
\* instruction is that instruction; no two emitted cells share the same
\* (x,y), so no instruction cell is hidden behind another cell.
C33_OneCellEach ==
    laidOut =>
        /\ \A i \in 1..Len(instructions) :
              instructions[i].type \notin {"ORB", "ANB"} => ShownOnce(i)
        /\ NoOverlap

\* the same for the programs in which no MRD or MPP finds a branch point
C33_WithoutBranches ==
    (laidOut /\ \A i \in 1..Len(instructions) : ~Branches(i)) =>
        /\ \A i \in 1..Len(instructions) :
              instructions[i].type \notin {"ORB", "ANB"} => ShownOnce(i)
        /\ NoOverlap

-----------------------------------------------------------------------------
(* Counters with a reset *)

\* a counter coil followed by its reset, and the reset placed first
CountThenReset ==
    << Inst(1, "LD", X0, <<X0>>), Inst(2, "OUT", C0, <<C0, K3>>),
       Inst(3, "LD", X1, <<X1>>), Inst(4, "RST", C0, <<C0>>) >>

ResetThenCount ==
    << Inst(1, "LD", X1, <<X1>>), Inst(2, "RST", C0, <<C0>>),
       Inst(3, "LD", X0, <<X0>>), Inst(4, "OUT", C0, <<C0, K1>>) >>

InitCounter == InitWith({CountThenReset, ResetThenCount}, {EmptyState})

\* one tick of setInterval(runLoop, 100)
countScan == RunLoop(100, MaxScans)

NextCounter == clickContact \/ countScan

SpecCounter == InitCounter /\ [][NextCounter]_vars

\* the i-th instruction is an OUT to a counter
IsCounterOut(i) ==
    instructions[i].type = "OUT" /\ startsWith(instructions[i].value, "C")

\* the scan this step takes raises the counter at its i-th instruction
Counts(i) ==
    NumOr0(Leaving(i).counters, instructions[i].value)
        = NumOr0(Entering(i).counters, instructions[i].value) + 1

\* the rung the i-th instruction read in the scan before this step, false
\* when there was none
RungLastScan(i) == scans > 0 /\ Peek(Before(i).stack)

\* C34: with a counter coil OUT C and an RST C, a step increments
\* counters[C] only if the rung seen by OUT C was false on the previous step
\* and is true on this step; a rung held true counts at most once, also when
\* RST C fires meanwhile.
C34_CountsOnlyOnEdge ==
    [][scans' = scans + 1 =>
          \A i \in 1..Len(instructions) :
              (IsCounterOut(i) /\ Counts(i)) =>
                  (Peek(Entering(i).stack) /\ ~RungLastScan(i))]_vars

\* an RST of the counter of the i-th instruction ran on a true rung since
\* that instruction ran in the scan before this step
ResetFired(i) ==
    \E j \in 1..Len(instructions) :
        /\ instructions[j].type = "RST"
        /\ instructions[j].value = instructions[i].value
        /\ \/ j < i /\ Peek(Entering(j).stack)
           \/ j > i /\ scans > 0 /\ Peek(Before(j).stack)

\* C34 (amended): a step increments counters[C] only if the rung seen by
\* OUT C is true on this step and either it was false on the previous step or
\* an RST C has run on a true rung since the previous OUT C.
C34_CountsOnEdgeOrReset ==
    [][scans' = scans + 1 =>
          \A i \in 1..Len(instructions) :
              (IsCounterOut(i) /\ Counts(i)) =>
                  /\ Peek(Entering(i).stack)
                  /\ ~RungLastScan(i) \/ ResetFired(i)]_vars

\* the count rung has been true for two scans, the reset fired, and the
\* latest scan counted again
C34_Witness ==
    /\ scans >= 2
    /\ Len(held) >= 2
    /\ \E i \in 1..Len(instructions) :
           /\ IsCounterOut(i)
           /\ Peek(Before(i).stack)
           /\ NumOr0(After(i).counters, C0) = NumOr0(Before(i).counters, C0) + 1
    /\ \E j \in 1..Len(instructions) :
           instructions[j].type = "RST" /\ Peek(Before(j).stack)

\* the scan this step takes runs an RST of the name on a true rung
ResetRuns(name) ==
    \E j \in 1..Len(instructions) :
        /\ instructions[j].type = "RST"
        /\ instructions[j].value = name
        /\ Peek(Entering(j).stack)

\* C37: a counter does not saturate: every false-to-true transition of the
\* rung of OUT C adds one to counters[C], also at and above the preset; OUT C
\* leaves a true io[C] true; and counters[C] decreases in a step only through
\* an RST C on a true rung.
C37_NoSaturation ==
    [][scans' = scans + 1 =>
          /\ \A i \in 1..Len(instructions) :
                 IsCounterOut(i) =>
                     /\ (Peek(Entering(i).stack) /\ ~RungLastScan(i)) => Counts(i)
                     /\ getBit(Entering(i).io, instructions[i].value)
                            => getBit(Leaving(i).io, instructions[i].value)
          /\ NumOr0(stateRef'.counters, C0) < NumOr0(stateRef.counters, C0)
                 => ResetRuns(C0)]_vars

\* the latest scan counted a rising edge of a counter that had already
\* reached its preset, and the counter bit is still on
C37_Witness ==
    /\ scans > 0
    /\ getBit(stateRef.io, C0)
    /\ \E i \in 1..Len(instructions) :
           /\ IsCounterOut(i)
           /\ AtLeast(NumOr0(Before(i).counters, C0),
                      Preset(instructions[i], Before(i).data))
           /\ NumOr0(After(i).counters, C0) = NumOr0(Before(i).counters, C0) + 1
           /\ NumOr0(stateRef.counters, C0) = NumOr0(After(i).counters, C0)

-----------------------------------------------------------------------------
(* Writes and reads within one scan *)

\* a coil read by a later rung, and by an earlier one
ForwardPair ==
    << Inst(1, "LD", X0, <<X0>>), Inst(2, "OUT", Y0, <<Y0>>),
       Inst(3, "LD", Y0, <<Y0>>), Inst(4, "OUT", Y1, <<Y1>>) >>

BackwardPair ==
    << Inst(1, "LD", Y0, <<Y0>>), Inst(2, "OUT", Y1, <<Y1>>),
       Inst(3, "LD", X0, <<X0>>), Inst(4, "OUT", Y0, <<Y0>>) >>

\* a latch set and reset before it is read
SetResetRead ==
    << Inst(1, "LD", X0, <<X0>>), Inst(2, "SET", Y0, <<Y0>>),
       Inst(3, "LD", X1, <<X1>>), Inst(4, "RST", Y0, <<Y0>>),
       Inst(5, "LDI", Y0, <<Y0>>), Inst(6, "OUT", Y1, <<Y1>>) >>

InitOrder == InitWith({ForwardPair, BackwardPair, SetResetRead}, {EmptyState})

NextOrder == clickContact \/ countScan

SpecOrder == InitOrder /\ [][NextOrder]_vars

IsContact(i) == instructions[i].type \in {"LD", "LDI", "AND", "ANI", "OR", "ORI"}

\* the bit the i-th instruction read in the latest scan, recovered from what
\* it pushes on a stack that lets the bit through
ReadBy(i) ==
    LET t == instructions[i].type
    IN  CASE t \in {"LD", "AND"} -> Peek(AfterOn(i, <<TRUE>>).stack)
          [] t = "OR"             -> Peek(AfterOn(i, <<FALSE>>).stack)
          [] t = "LDI"            -> ~Peek(AfterOn(i, <<TRUE>>).stack)
          [] t = "ANI"            -> ~Peek(AfterOn(i, <<TRUE>>).stack)
          [] t = "ORI"            -> ~Peek(AfterOn(i, <<FALSE>>).stack)

\* the j-th instruction of the latest scan wrote the bit key: an OUT always,
\* a SET or RST on a true rung
WritesBit(j, key) ==
    /\ instructions[j].value = key
    /\ \/ instructions[j].type = "OUT"
       \/ instructions[j].type \in {"SET", "RST"} /\ Peek(Before(j).stack)

WrittenBy(j) ==
    CASE instructions[j].type = "OUT" -> Peek(Before(j).stack)
      [] instructions[j].type = "SET" -> TRUE
      [] instructions[j].type = "RST" -> FALSE

\* the value the i-th instruction is to read: that of the latest write before
\* it in the scan, else the one the scan was handed
LatestWrite(i) ==
    LET key == instructions[i].value
        ws  == {j \in 1..(i - 1) : WritesBit(j, key)}
    IN  IF ws = {} THEN getBit(prevState.io, key) ELSE WrittenBy(SetMax(ws))

\* C35: within one step writes take effect at once, in program order: a
\* contact reads the value of the latest OUT / SET / RST to its bit earlier in
\* the same scan, else the value of the previous step; so ForwardPair gives
\* Y1 = X0 and BackwardPair gives Y1 the previous Y0.
C35_ProgramOrder ==
    scans > 0 =>
        /\ \A i \in 1..Len(instructions) : IsContact(i) => ReadBy(i) = LatestWrite(i)
        /\ instructions = ForwardPair
               => getBit(stateRef.io, Y1) = getBit(prevState.io, X0)
        /\ instructions = BackwardPair
               => getBit(stateRef.io, Y1) = getBit(prevState.io, Y0)

\* a contact read a value written earlier in the same scan that differs from
\* the one the scan was handed
C35_Witness ==
    /\ scans > 0
    /\ \E i \in 1..Len(instructions) :
           /\ IsContact(i)
           /\ \E j \in 1..(i - 1) : WritesBit(j, instructions[i].value)
           /\ ReadBy(i) # getBit(prevState.io, instructions[i].value)

-----------------------------------------------------------------------------
(* Balanced branch stacks *)

\* the longest mpsStack a first scan is handed
MaxMps == 2

\* a branch saved inside a saved branch
NestedMps ==
    << Inst(1, "LD", X0, <<X0>>), Inst(2, "MPS", <<>>, <<>>),
       Inst(3, "AND", X1, <<X1>>), Inst(4, "MPS", <<>>, <<>>),
       Inst(5, "AND", X2, <<X2>>), Inst(6, "OUT", Y0, <<Y0>>),
       Inst(7, "MPP", <<>>, <<>>), Inst(8, "OUT", Y1, <<Y1>>),
       Inst(9, "MPP", <<>>, <<>>), Inst(10, "OUT", Y2, <<Y2>>) >>

MpsStacks == UNION {[1..n -> BOOLEAN] : n \in 0..MaxMps}

MpsStates == {[EmptyState EXCEPT !.mpsStack = ms] : ms \in MpsStacks}

\* a saved rung read back by MRD and by MPP
ReadBackMps ==
    << Inst(1, "LD", X0, <<X0>>), Inst(2, "MPS", <<>>, <<>>),
       Inst(3, "OUT", Y0, <<Y0>>), Inst(4, "MRD", <<>>, <<>>),
       Inst(5, "AND", X1, <<X1>>), Inst(6, "OUT", Y1, <<Y1>>),
       Inst(7, "MPP", <<>>, <<>>), Inst(8, "OUT", Y2, <<Y2>>) >>

InitMps == InitWith({ReadBackMps, NestedMps}, MpsStates)

mpsScan == RunLoop(100, MaxRuns)

NextMps == clickContact \/ mpsScan

SpecMps == InitMps /\ [][NextMps]_vars

\* the maps of a state, without its mpsStack
Maps(st) ==
    [io |-> st.io, data |-> st.data, timers |-> st.timers,
     counters |-> st.counters, edgeMemory |-> st.edgeMemory]

\* C36: for a program with balanced MPS / MPP (MRD between a pair) a step
\* returns the mpsStack it was handed, so an empty one stays empty over a
\* run, and the maps it returns are the same for every mpsStack handed in.
C36_BalancedStack ==
    scans > 0 =>
        /\ stateRef.mpsStack = prevState.mpsStack
        /\ \A ms \in MpsStacks :
               LET other == runScanCycle(instructions,
                                         [prevState EXCEPT !.mpsStack = ms], dt)
               IN  /\ other.mpsStack = ms
                   /\ Maps(other) = Maps(runScanCycle(instructions, prevState, dt))

\* a scan handed a non-empty mpsStack saved a true rung, read it back and
\* switched the last coil on
C36_Witness ==
    /\ scans > 0
    /\ Len(prevState.mpsStack) = MaxMps
    /\ prevState.mpsStack[MaxMps] = FALSE
    /\ stateRef.mpsStack = prevState.mpsStack
    /\ getBit(stateRef.io, Y2)

-----------------------------------------------------------------------------
(* Power flow through cells that are not contacts *)

K5 == <<"K", "5">>

\* a comparator ahead of a contact and a move
CompareGate ==
    << Inst(1, "LD_EQ", D0, <<D0, K5>>), Inst(2, "AND", X0, <<X0>>),
       Inst(3, "MOV", K1, <<K1, D1>>) >>

\* a register written by one rung and compared by the next, beside a timer
MoveThenCompare ==
    << Inst(1, "LD", X0, <<X0>>), Inst(2, "MOV", K5, <<K5, D0>>),
       Inst(3, "LD", X0, <<X0>>), Inst(4, "AND_EQ", D0, <<D0, K1>>),
       Inst(5, "OUT", T0, <<T0, K10>>) >>

\* a saved rung that sets one coil and resets another
BranchCoils ==
    << Inst(1, "LD", X0, <<X0>>), Inst(2, "OR_EQ", D0, <<D0, D1>>),
       Inst(3, "MPS", <<>>, <<>>), Inst(4, "SET", Y0, <<Y0>>),
       Inst(5, "MPP", <<>>, <<>>), Inst(6, "RST", Y1, <<Y1>>) >>

CompareStates ==
    {EmptyState, [EmptyState EXCEPT !.data = Put(EmptyMap, D0, 5)]}

InitCompare == InitWith({CompareGate, MoveThenCompare, BranchCoils}, CompareStates)

NextCompare == updateGrid \/ energize \/ clickContact \/ mpsScan

SpecCompare == InitCompare /\ [][NextCompare]_vars

\* the instruction types whose cells calculatePowerFlow has no case for
AlwaysConducting ==
    {"LD_EQ", "AND_EQ", "OR_EQ", "SET", "RST", "MOV", "MOVP", "MPS", "MRD", "MPP"}

\* power that enters the cell leaves it
PassesPower(c) ==
    Term(c.x, c.y, "in") \in energized => Term(c.x, c.y, "out") \in energized

-----------------------------------------------------------------------------
(* The editor hook called with any index *)

\* the number of calls of the hook in a run
MaxIdEdits == 3

\* how far outside the list an index is taken
MaxOutside == 2

\* a list whose ids are not in order and partly above 999
HighIds == << Inst(1500, "LD", X0, <<X0>>), Inst(7, "OUT", Y0, <<Y0>>) >>

Ids(insts) == {insts[i].id : i \in 1..Len(insts)}

\* Array.prototype.splice: the start it uses for a requested position
SpliceStart(len, pos) ==
    IF pos < 0 THEN Max2(len + pos, 0) ELSE Min2(pos, len)

\* variant: the new id is counted from the length of the list
Inserted_countId(insts, index, type, value) ==
    LET newId == 1000 + Len(insts)
    IN  Splice0(insts, SpliceStart(Len(insts), index + 1), Inst(newId, type, value, <<>>))

\* the list the updater of insertInstruction returns
Inserted(insts, index, type, value) ==
    LET newId == SetMax({0, 999} \cup Ids(insts)) + 1
    IN  Splice0(insts, SpliceStart(Len(insts), index + 1), Inst(newId, type, value, <<>>))

\* the list the updater of deleteInstruction returns
Deleted(insts, index) ==
    IF index >= 0 /\ index < Len(insts) THEN Splice1(insts, index) ELSE insts

\* the list the updater of updateInstruction returns for { value }
Updated(insts, index, value) ==
    IF index >= 0 /\ index < Len(insts)
    THEN [insts EXCEPT ![index + 1] = [@ EXCEPT !.value = value]]
    ELSE insts

Indices(insts) == (0 - 1 - MaxOutside)..(Len(insts) - 1 + MaxOutside)

\* setInstructions(updater): the hook does not look at the simulation
Apply(next) ==
    /\ edits < MaxIdEdits
    /\ instructions' = next
    /\ edits' = edits + 1
    /\ laidOut' = FALSE
    /\ UNCHANGED <<stateRef, isSimulating, prevState, dt, scans, held, rises,
                   grid, energized, flowIo, rungAt, bfs, layouts, imports,
                   loopRef, intervals>>

hookSeries ==
    \E index \in Indices(instructions) :
        Apply(Inserted(instructions, index, "AND", <<"X", "?">>))

hookParallel ==
    \E index \in Indices(instructions) :
        Apply(Inserted(instructions, index, "OR", <<"Y", "?">>))

hookDelete == \E index \in Indices(instructions) : Apply(Deleted(instructions, index))

hookUpdate ==
    \E index \in Indices(instructions) : \E value \in {X1, Y1} :
        Apply(Updated(instructions, index, value))

InitIds == InitWith({PulseProgram, HighIds, <<>>}, {EmptyState})

NextIds == hookSeries \/ hookParallel \/ hookDelete \/ hookUpdate

SpecIds == InitIds /\ [][NextIds]_vars

Distinct(insts) ==
    \A i, j \in 1..Len(insts) : insts[i].id = insts[j].id => i = j

\* next is insts with one instruction more, at position pos counted from 0,
\* whose id is at least 1000 and above every id of insts
AddsAt(insts, next, pos) ==
    /\ Len(next) = Len(insts) + 1
    /\ pos >= 0 /\ pos <= Len(insts)
    /\ Splice1(next, pos) = insts
    /\ next[pos + 1].id >= 1000
    /\ \A id \in Ids(insts) : next[pos + 1].id > id

OutOfRange(insts, index) == index < 0 \/ index >= Len(insts)

\* what the calls leave of the list when the index is outside of it
LeftAlone(insts) ==
    \A index \in Indices(insts) :
        OutOfRange(insts, index) =>
            /\ Deleted(insts, index) = insts
            /\ \A value \in {X1, Y1} : Updated(insts, index, value) = insts

\* C39: ids stay pairwise distinct under insertSeries, insertParallel,
\* deleteInstruction and updateInstruction(value); each insert adds exactly
\* one instruction at position index + 1, with an id of at least 1000 above
\* every id in the list; a delete or update with an index out of range
\* leaves the list unchanged.
C39_UniqueIds ==
    /\ Distinct(instructions)
    /\ \A index \in Indices(instructions) : \A type \in {"AND", "OR"} :
           AddsAt(instructions, Inserted(instructions, index, type, <<"X", "?">>),
                  index + 1)
    /\ LeftAlone(instructions)

\* C39 (amended): as C39, with the new instruction at position index + 1 for
\* an index from -1 to length - 1, at the end of the list for a larger index
\* and at position max(0, length + index + 1) for a smaller one.
C39_UniqueIdsClamped ==
    /\ Distinct(instructions)
    /\ \A index \in Indices(instructions) : \A type \in {"AND", "OR"} :
           LET len == Len(instructions)
               pos == IF index >= len THEN len
                      ELSE IF index < 0 - 1 THEN Max2(0, len + index + 1)
                      ELSE index + 1
           IN  AddsAt(instructions, Inserted(instructions, index, type, <<"X", "?">>),
                      pos)
    /\ LeftAlone(instructions)

\* two inserts and a delete have been applied to the four-instruction list
C39_Witness ==
    /\ edits = MaxIdEdits
    /\ Len(instructions) = 5
    /\ {1000, 1001} \subseteq Ids(instructions)
    /\ Distinct(instructions)

-----------------------------------------------------------------------------
(* The simulator session *)

\* variant: the reset leaves the interval running
resetSimulation_keepTimer ==
    /\ stateRef' = EmptyState
    /\ isSimulating' = FALSE
    /\ energized' = {}
    /\ flowIo' = Null
    /\ UNCHANGED <<instructions, prevState, dt, scans, held, rises, grid, laidOut,
                   rungAt, bfs, edits, layouts, imports, loopRef, intervals>>

\* useLadderSimulator.resetSimulation (setIoState of the host): the empty
\* state, the interval cleared, isSimulating false; the power flow memo of
\* the host then yields the empty set
resetSimulation ==
    /\ stateRef' = EmptyState
    /\ loopRef' = FALSE
    /\ intervals' = Cleared
    /\ isSimulating' = FALSE
    /\ energized' = {}
    /\ flowIo' = Null
    /\ UNCHANGED <<instructions, prevState, dt, scans, held, rises, grid, laidOut,
                   rungAt, bfs, edits, layouts, imports>>

\* the hook as constructed: stopped, no interval, the empty state
InitSession ==
    /\ instructions \in {TEST_CASE_SELF_HOLDING, TimerProgram}
    /\ stateRef = EmptyState
    /\ isSimulating = FALSE
    /\ loopRef = FALSE
    /\ intervals = 0
    /\ prevState = EmptyState
    /\ dt = 0
    /\ scans = 0
    /\ held = <<>>
    /\ rises = 0
    /\ grid = <<>>
    /\ laidOut = FALSE
    /\ energized = {}
    /\ flowIo = Null
    /\ rungAt = EmptyMap
    /\ bfs = BfsIdle
    /\ edits = 0
    /\ layouts = <<>>
    /\ imports = <<>>

NextSession == toggleSimulation \/ clickContact \/ countScan \/ resetSimulation

SpecSession == InitSession /\ [][NextSession]_vars

\* an interval is set exactly while isSimulating, and loopRef holds it
TimerMatches ==
    /\ intervals = (IF isSimulating THEN 1 ELSE 0)
    /\ loopRef = isSimulating

\* C40: in the simulator session a scan interval is active exactly while
\* isSimulating is true; scans run and bits are toggled only while it is
\* true; a reset clears the interval, sets isSimulating to false and puts the
\* empty state, which then no scan changes until the simulation is started.
C40_Session ==
    [][/\ TimerMatches /\ TimerMatches'
       /\ scans' # scans => isSimulating
       /\ (stateRef' # stateRef /\ stateRef' # EmptyState) => isSimulating
       /\ (stateRef' = EmptyState /\ scans' = scans /\ isSimulating' = FALSE
              /\ (stateRef # EmptyState \/ isSimulating))
             => (intervals' = 0 /\ ~loopRef')
       /\ (~isSimulating /\ ~isSimulating') => stateRef' \in {stateRef, EmptyState}]_vars

\* scans have run and a reset has put the empty state and stopped the timer
C40_Witness ==
    /\ scans > 0
    /\ stateRef = EmptyState
    /\ ~isSimulating
    /\ intervals = 0
    /\ prevState # EmptyState

=============================================================================
